---- MODULE Spec2Model ----
(***************************************************************************)
(* Student Finance Tracker: the state container (state.js, bundled into    *)
(* scripts/app.js), the storage adapter over localStorage (storage.js),    *)
(* and the search pipeline (search.js).                                    *)
(*                                                                         *)
(* Conventions.                                                            *)
(*   - A JavaScript string is a sequence of one-character strings, so that *)
(*     trim, toLowerCase and regular-expression scanning are computed.     *)
(*   - A nullable value is a sequence of length 0 (null) or 1 (<<v>>).     *)
(*   - A money amount is a whole number of cents; an exchange rate is a    *)
(*     whole number of 1/RateScale units.                                  *)
(*   - An item of localStorage holds the value whose JSON text the code    *)
(*     stores. Every value the model stores is built from strings, finite  *)
(*     numbers, arrays and plain objects, on which JSON.parse after        *)
(*     JSON.stringify gives the value back.                                *)
(***************************************************************************)
EXTENDS Integers, Sequences, FiniteSets, TLC

VARIABLES
    localStorage,   \* the browser's key-value store: one nullable item per key
    transactions,   \* state.transactions
    categories,     \* state.categories
    settings,       \* state.settings
    ui,             \* state.ui
    subscribers,    \* the Set of callbacks, in insertion order
    now,            \* Date.now(), in milliseconds
    initialised,    \* init() has run initState()
    writeFailures,  \* the calls so far during which the store refused to write
    notified,       \* the callbacks invoked during the last call, in order
    shown,          \* getFilteredTransactions' list, before and after sorting
    page,           \* the search box, its case box and the pending timeouts
    peer,           \* the mirror of the application in the other tab
    last            \* the last call: its name, arguments, result, and write flag

vars == <<localStorage, transactions, categories, settings, ui, subscribers,
          now, initialised, writeFailures, notified, shown, page, peer,
          last>>

\* A finished call: its name, arguments and return value, whether the store
\* wrote during it, and whether it was left by an exception instead.
Call(op, arg, ret, w, threw) ==
    [op |-> op, arg |-> arg, ret |-> ret, w |-> w, threw |-> threw]

\* The return value of a function that returns nothing.
Undefined == <<"undefined">>

----------------------------------------------------------------------------
(* Bounds of the model *)

MaxTxns == 2
MaxClock == 1
MaxWriteFailures == 1

----------------------------------------------------------------------------
(* Strings *)

Null == <<>>
Some(v) == <<v>>

Space == " "

UpperToLower ==
    ("F" :> "f") @@ ("B" :> "b") @@ ("T" :> "t") @@ ("E" :> "e") @@ ("O" :> "o")
    @@ ("A" :> "a")

toLowerCaseChar(c) == IF c \in DOMAIN UpperToLower THEN UpperToLower[c] ELSE c

toLowerCase(s) == [i \in 1..Len(s) |-> toLowerCaseChar(s[i])]

RECURSIVE trimStart(_)
trimStart(s) ==
    IF s # <<>> /\ Head(s) = Space THEN trimStart(Tail(s)) ELSE s

RECURSIVE trimEnd(_)
trimEnd(s) ==
    IF s # <<>> /\ s[Len(s)] = Space THEN trimEnd(SubSeq(s, 1, Len(s) - 1)) ELSE s

trim(s) == trimEnd(trimStart(s))

\* { ...a, ...b }: the own keys of a, then those of b, later values winning.
Spread(a, b) ==
    [k \in DOMAIN a \cup DOMAIN b |-> IF k \in DOMAIN b THEN b[k] ELSE a[k]]

\* Array.prototype.findIndex, 1-based; 0 stands for -1.
RECURSIVE findIndexFrom(_, _, _)
findIndexFrom(s, P(_), i) ==
    IF i > Len(s) THEN 0
    ELSE IF P(s[i]) THEN i
    ELSE findIndexFrom(s, P, i + 1)

findIndex(s, P(_)) == findIndexFrom(s, P, 1)

----------------------------------------------------------------------------
(* storage.js: defaults *)

Food == <<"F", "o", "o", "d">>
Books == <<"B", "o", "o", "k", "s">>
Transport == <<"T", "r", "a", "n", "s", "p", "o", "r", "t">>
Entertainment ==
    <<"E", "n", "t", "e", "r", "t", "a", "i", "n", "m", "e", "n", "t">>
Fees == <<"F", "e", "e", "s">>
Other == <<"O", "t", "h", "e", "r">>

DEFAULT_CATEGORIES == <<Food, Books, Transport, Entertainment, Fees, Other>>

\* 1.08 and 0.00073, in units of 1/RateScale.
RateScale == 100000
DefaultRateEUR == 108000
DefaultRateRWF == 73

DEFAULT_SETTINGS ==
    [baseCurrency |-> "USD",
     displayCurrency |-> "USD",
     exchangeRates |-> [EUR |-> DefaultRateEUR, RWF |-> DefaultRateRWF],
     budgetCap |-> 0]

----------------------------------------------------------------------------
(* storage.js: the adapter.  Each function takes the store ls and, where   *)
(* it writes, the flag w: TRUE when localStorage.setItem / removeItem      *)
(* succeed during this call, FALSE when they throw (quota exceeded,        *)
(* storage disabled).  It gives the store afterwards and the value         *)
(* returned.                                                               *)

loadTransactions(ls) ==
    IF ls.transactions = Null THEN <<>> ELSE ls.transactions[1]

saveTransactions(ls, txns, w) ==
    IF w
    THEN [ls |-> [ls EXCEPT !.transactions = Some(txns)], ret |-> TRUE]
    ELSE [ls |-> ls, ret |-> FALSE]

\* 'txn_' + Date.now().toString(36) + Math.random().toString(36).substr(2, 5)
generateId(t, r) == <<"txn", t, r>>

\* new Date().toISOString()
toISOString(t) == <<"iso", t>>

storage_addTransaction(ls, transaction, t, r, w) ==
    LET loaded == loadTransactions(ls)
        newTransaction ==
            Spread(Spread([id |-> generateId(t, r)], transaction),
                   [createdAt |-> toISOString(t), updatedAt |-> toISOString(t)])
        saved == saveTransactions(ls, Append(loaded, newTransaction), w)
    IN  \* the result of saveTransactions is dropped
        [ls |-> saved.ls, ret |-> Some(newTransaction)]

storage_updateTransaction(ls, id, updates, t, w) ==
    LET loaded == loadTransactions(ls)
        HasId(x) == x.id = id
        index == findIndex(loaded, HasId)
    IN  IF index = 0
        THEN [ls |-> ls, ret |-> Null]
        ELSE LET updatedTransaction ==
                     Spread(Spread(loaded[index], updates),
                            [updatedAt |-> toISOString(t)])
                 saved == saveTransactions(
                              ls, [loaded EXCEPT ![index] = updatedTransaction], w)
             IN  [ls |-> saved.ls, ret |-> Some(updatedTransaction)]

storage_deleteTransaction(ls, id, w) ==
    LET loaded == loadTransactions(ls)
        OtherId(x) == x.id # id
        filtered == SelectSeq(loaded, OtherId)
    IN  IF Len(filtered) = Len(loaded)
        THEN [ls |-> ls, ret |-> FALSE]
        ELSE [ls |-> saveTransactions(ls, filtered, w).ls, ret |-> TRUE]

clearTransactions(ls, w) ==
    IF w
    THEN [ls |-> [ls EXCEPT !.transactions = Null], ret |-> TRUE]
    ELSE [ls |-> ls, ret |-> FALSE]

storage_importTransactions(ls, txns, w) ==
    [ls |-> saveTransactions(ls, txns, w).ls, ret |-> TRUE]

saveCategories(ls, cats, w) ==
    IF w
    THEN [ls |-> [ls EXCEPT !.categories = Some(cats)], ret |-> TRUE]
    ELSE [ls |-> ls, ret |-> FALSE]

\* An absent item is initialised with the defaults, so loading may write.
loadCategories(ls, w) ==
    IF ls.categories = Null
    THEN [ls |-> saveCategories(ls, DEFAULT_CATEGORIES, w).ls,
          ret |-> DEFAULT_CATEGORIES]
    ELSE [ls |-> ls, ret |-> ls.categories[1]]

storage_addCategory(ls, category, w) ==
    LET loaded == loadCategories(ls, w)
        normalized == trim(category)
        Same(c) == toLowerCase(c) = toLowerCase(normalized)
    IN  IF findIndex(loaded.ret, Same) # 0
        THEN [ls |-> loaded.ls, ret |-> FALSE]
        ELSE [ls |-> saveCategories(loaded.ls, Append(loaded.ret, normalized), w).ls,
              ret |-> TRUE]

storage_removeCategory(ls, category, w) ==
    LET loaded == loadCategories(ls, w)
        Differs(c) == c # category
        filtered == SelectSeq(loaded.ret, Differs)
    IN  IF Len(filtered) = Len(loaded.ret)
        THEN [ls |-> loaded.ls, ret |-> FALSE]
        ELSE [ls |-> saveCategories(loaded.ls, filtered, w).ls, ret |-> TRUE]

saveSettings(ls, s, w) ==
    IF w
    THEN [ls |-> [ls EXCEPT !.settings = Some(s)], ret |-> TRUE]
    ELSE [ls |-> ls, ret |-> FALSE]

loadSettings(ls, w) ==
    IF ls.settings = Null
    THEN [ls |-> saveSettings(ls, DEFAULT_SETTINGS, w).ls, ret |-> DEFAULT_SETTINGS]
    ELSE [ls |-> ls, ret |-> Spread(DEFAULT_SETTINGS, ls.settings[1])]

storage_updateSettings(ls, updates, w) ==
    LET loaded == loadSettings(ls, w)
        updatedSettings == Spread(loaded.ret, updates)
    IN  [ls |-> saveSettings(loaded.ls, updatedSettings, w).ls,
         ret |-> updatedSettings]

----------------------------------------------------------------------------
(* state.js: derived statistics, as functions of the transaction list *)

RECURSIVE getTotalAmount(_)
getTotalAmount(txns) ==
    IF txns = <<>> THEN 0 ELSE Head(txns).amount + getTotalAmount(Tail(txns))

getTransactionCount(txns) == Len(txns)

\* The keys of categoryTotals, in the order in which forEach inserted them.
RECURSIVE categoryKeys(_, _)
categoryKeys(txns, seen) ==
    IF txns = <<>> THEN seen
    ELSE LET c == Head(txns).category
             Is(k) == k = c
         IN  categoryKeys(Tail(txns),
                          IF findIndex(seen, Is) # 0 THEN seen ELSE Append(seen, c))

categoryTotal(txns, c) ==
    LET InC(x) == x.category = c
    IN  getTotalAmount(SelectSeq(txns, InC))

RECURSIVE scanTop(_, _, _, _, _)
scanTop(txns, keys, i, topCategory, topAmount) ==
    IF i > Len(keys) THEN [category |-> topCategory, amount |-> topAmount]
    ELSE LET amount == categoryTotal(txns, keys[i])
         IN  IF amount > topAmount
             THEN scanTop(txns, keys, i + 1, Some(keys[i]), amount)
             ELSE scanTop(txns, keys, i + 1, topCategory, topAmount)

getTopCategory(txns) ==
    IF Len(txns) = 0 THEN Null
    ELSE Some(scanTop(txns, categoryKeys(txns, <<>>), 1, Null, 0))

WarningPercent == 80
FullPercent == 100

\* getBudgetStatus with "percentage > 100" where the code has ">=".
getBudgetStatus_StrictOver(txns, s) ==
    LET total == getTotalAmount(txns)
        cap == s.budgetCap
    IN  IF cap = 0
        THEN [cap |-> 0, spent |-> total, remaining |-> Null,
              percentage |-> [num |-> 0, den |-> 1], status |-> "no-cap"]
        ELSE LET over == total * FullPercent >= FullPercent * cap
                 pct == IF over THEN [num |-> FullPercent, den |-> 1]
                        ELSE [num |-> total * FullPercent, den |-> cap]
             IN  [cap |-> cap, spent |-> total, remaining |-> Some(cap - total),
                  percentage |-> pct,
                  status |-> IF pct.num > FullPercent * pct.den THEN "over"
                             ELSE IF pct.num >= WarningPercent * pct.den THEN "warning"
                             ELSE "under"]

\* percentage is the exact fraction num/den; the comparisons with 100 and 80
\* are made on it by cross-multiplication.
getBudgetStatus(txns, s) ==
    LET total == getTotalAmount(txns)
        cap == s.budgetCap
    IN  IF cap = 0
        THEN [cap |-> 0, spent |-> total, remaining |-> Null,
              percentage |-> [num |-> 0, den |-> 1], status |-> "no-cap"]
        ELSE LET over == total * FullPercent >= FullPercent * cap
                 pct == IF over THEN [num |-> FullPercent, den |-> 1]
                        ELSE [num |-> total * FullPercent, den |-> cap]
             IN  [cap |-> cap, spent |-> total, remaining |-> Some(cap - total),
                  percentage |-> pct,
                  status |-> IF pct.num >= FullPercent * pct.den THEN "over"
                             ELSE IF pct.num >= WarningPercent * pct.den THEN "warning"
                             ELSE "under"]

\* getTransaction: state.transactions.find(t => t.id === id) || null
getTransaction(txns, id) ==
    LET HasId(x) == x.id = id
        index == findIndex(txns, HasId)
    IN  IF index = 0 THEN Null ELSE Some(txns[index])

getFullState(t, c, s, u) ==
    [transactions |-> t,
     categories |-> c,
     settings |-> s,
     ui |-> u,
     stats |-> [totalAmount |-> getTotalAmount(t),
                transactionCount |-> getTransactionCount(t),
                topCategory |-> getTopCategory(t),
                budgetStatus |-> getBudgetStatus(t, s)]]

----------------------------------------------------------------------------
(* state.js: subscribers *)

\* The callbacks the model registers.  "faulty" throws whenever it is called.
Callbacks == {"render", "faulty"}

Throws(cb) == cb = "faulty"

RECURSIVE forEachCaught(_, _, _)
forEachCaught(subs, i, snapshot) ==
    IF i > Len(subs) THEN <<>>
    ELSE <<[cb |-> subs[i], state |-> snapshot, threw |-> Throws(subs[i])]>>
         \o forEachCaught(subs, i + 1, snapshot)

RECURSIVE forEachUncaught(_, _, _)
forEachUncaught(subs, i, snapshot) ==
    IF i > Len(subs) THEN [calls |-> <<>>, threw |-> FALSE]
    ELSE LET call == [cb |-> subs[i], state |-> snapshot, threw |-> Throws(subs[i])]
         IN  IF call.threw
             THEN [calls |-> <<call>>, threw |-> TRUE]
             ELSE LET rest == forEachUncaught(subs, i + 1, snapshot)
                  IN  [calls |-> <<call>> \o rest.calls, threw |-> rest.threw]

\* notifySubscribers without its try/catch: the first throw ends the round
\* and leaves the caller by exception.
notifySubscribers_NoCatch(subs, snapshot) == forEachUncaught(subs, 1, snapshot)

\* Every callback is called with getFullState(); a throw is caught and
\* logged, so the round never leaves by exception.
notifySubscribers(subs, snapshot) ==
    [calls |-> forEachCaught(subs, 1, snapshot), threw |-> FALSE]

----------------------------------------------------------------------------
(* The inputs the model draws.                                             *)

D0915 == <<"2", "0", "2", "5", "-", "0", "9", "-", "1", "5">>
D0916 == <<"2", "0", "2", "5", "-", "0", "9", "-", "1", "6">>

\* Math.random()'s five base-36 digits.
Rand == {0, 1}

\* What handleFormSubmit passes on: trimmed description, parsed amount.
TxnInputs ==
    {[description |-> <<"t", "e", "a">>, amount |-> 250, date |-> D0915,
      category |-> Food]}

TxnUpdates == {[amount |-> 900]}

Tea == <<"T", "e", "a">>

\* A new name, the same name padded with spaces, and a name that differs
\* from a default one by case only.
CategoryInputs == {Tea, <<Space>> \o Tea \o <<Space>>, <<"f", "o", "o", "d">>}

CategoryRemovals == {Tea, Food}

SettingsUpdates == {[budgetCap |-> 300]}

\* The ids a caller may name: generated ones, and the one an import file
\* carries.
ExtId == <<"ext", 0, 0>>
Ids == {generateId(t, 0) : t \in 0..MaxClock} \cup {ExtId}

\* Parsed import files that pass validation: an item exported earlier, which
\* carries its id, and a hand-written one, which carries none.
ExportedItem ==
    [description |-> <<"t", "e", "a">>, amount |-> 250, date |-> D0915,
     category |-> Food, id |-> ExtId]

NewItem ==
    [description |-> <<"b", "u", "s">>, amount |-> 100, date |-> D0916,
     category |-> Transport]

ImportFiles == {<<ExportedItem>>, <<NewItem>>, <<ExportedItem, ExportedItem>>}

----------------------------------------------------------------------------
(* validators.js: validateImportData, the record built for an item that    *)
(* passed validation (an id or timestamp the item carries is kept).        *)

normalizeItem(item, t, r) ==
    [id |-> IF "id" \in DOMAIN item THEN item.id ELSE generateId(t, r),
     description |-> trim(item.description),
     amount |-> item.amount,
     category |-> trim(item.category),
     date |-> trim(item.date),
     createdAt |-> IF "createdAt" \in DOMAIN item THEN item.createdAt
                   ELSE toISOString(t),
     updatedAt |-> IF "updatedAt" \in DOMAIN item THEN item.updatedAt
                   ELSE toISOString(t)]

----------------------------------------------------------------------------
(* state.js: construction *)

InitialUI ==
    [currentSection |-> "dashboard",
     searchQuery |-> <<>>,
     searchRegex |-> Null,
     sortBy |-> <<"d", "a", "t", "e", "-", "d", "e", "s", "c">>,
     categoryFilter |-> <<>>,
     editingId |-> Null,
     isLoading |-> FALSE]

NoList == [kept |-> <<>>, result |-> <<>>]

\* The page as loaded: an empty search box, the case box ticked, no timeout
\* pending.  timers holds the time left of each pending timeout; idle is
\* the time since the last event of the search box or the case box, none
\* before the first, and calls the calls of setSearchQuery since then.
InitialPage ==
    [value |-> <<>>, checked |-> TRUE, timers |-> {}, idle |-> Null, calls |-> 0]

\* No other tab has the application open.
NoPeer == <<>>

\* The store writes during a call (w), or refuses every write of the call.
Quota(w) ==
    /\ ~w => writeFailures < MaxWriteFailures
    /\ writeFailures' = IF w THEN writeFailures ELSE writeFailures + 1

Init ==
    /\ localStorage = [transactions |-> Null, settings |-> Null, categories |-> Null]
    /\ transactions = <<>>
    /\ categories = <<>>
    /\ settings = DEFAULT_SETTINGS
    /\ ui = InitialUI
    /\ subscribers = <<>>
    /\ now = 0
    /\ initialised = FALSE
    /\ writeFailures = 0
    /\ notified = <<>>
    /\ shown = NoList
    /\ page = InitialPage
    /\ peer = NoPeer
    /\ last = Call("construct", <<>>, Undefined, TRUE, FALSE)

----------------------------------------------------------------------------
(* state.js: mutators.  w is the quota flag of the call (see storage).     *)

initState(w) ==
    /\ ~initialised
    /\ Quota(w)
    /\ LET c == loadCategories(localStorage, w)
           s == loadSettings(c.ls, w)
           round == notifySubscribers(
                        subscribers,
                        getFullState(loadTransactions(localStorage), c.ret, s.ret, ui))
       IN  /\ transactions' = loadTransactions(localStorage)
           /\ categories' = c.ret
           /\ settings' = s.ret
           /\ localStorage' = s.ls
           /\ notified' = round.calls
           /\ last' = Call("initState", <<>>, Undefined, w, round.threw)
    /\ initialised' = TRUE
    /\ shown' = NoList /\ UNCHANGED <<page, peer>>
    /\ UNCHANGED <<ui, subscribers, now>>

addTransaction(transactionData, r, w) ==
    /\ initialised
    /\ Quota(w)
    /\ Len(transactions) < MaxTxns
    /\ Len(loadTransactions(localStorage)) < MaxTxns
    /\ LET stored == storage_addTransaction(localStorage, transactionData, now, r, w)
       IN  /\ localStorage' = stored.ls
           /\ IF stored.ret # Null
              THEN LET pushed == Append(transactions, stored.ret[1])
                       round == notifySubscribers(
                                    subscribers,
                                    getFullState(pushed, categories, settings, ui))
                   IN  /\ transactions' = pushed
                       /\ notified' = round.calls
                       /\ last' = Call("addTransaction", <<transactionData>>,
                                       stored.ret, w, round.threw)
              ELSE /\ transactions' = transactions
                   /\ notified' = <<>>
                   /\ last' = Call("addTransaction", <<transactionData>>, Null, w, FALSE)
    /\ UNCHANGED <<categories, settings, ui, subscribers, now, initialised>>
    /\ shown' = NoList /\ UNCHANGED <<page, peer>>

updateTransaction(id, updates, w) ==
    /\ initialised
    /\ Quota(w)
    /\ LET stored == storage_updateTransaction(localStorage, id, updates, now, w)
           HasId(x) == x.id = id
           index == findIndex(transactions, HasId)
       IN  /\ localStorage' = stored.ls
           /\ IF stored.ret # Null
              THEN IF index # 0
                   THEN LET replaced == [transactions EXCEPT ![index] = stored.ret[1]]
                            round == notifySubscribers(
                                         subscribers,
                                         getFullState(replaced, categories, settings, ui))
                        IN  /\ transactions' = replaced
                            /\ notified' = round.calls
                            /\ last' = Call("updateTransaction", <<id, updates>>,
                                            stored.ret, w, round.threw)
                   ELSE /\ transactions' = transactions
                        /\ notified' = <<>>
                        /\ last' = Call("updateTransaction", <<id, updates>>,
                                        stored.ret, w, FALSE)
              ELSE /\ transactions' = transactions
                   /\ notified' = <<>>
                   /\ last' = Call("updateTransaction", <<id, updates>>, Null, w, FALSE)
    /\ UNCHANGED <<categories, settings, ui, subscribers, now, initialised>>
    /\ shown' = NoList /\ UNCHANGED <<page, peer>>

deleteTransaction(id, w) ==
    /\ initialised
    /\ Quota(w)
    /\ LET stored == storage_deleteTransaction(localStorage, id, w)
           OtherId(x) == x.id # id
       IN  /\ localStorage' = stored.ls
           /\ IF stored.ret
              THEN LET filtered == SelectSeq(transactions, OtherId)
                       round == notifySubscribers(
                                    subscribers,
                                    getFullState(filtered, categories, settings, ui))
                   IN  /\ transactions' = filtered
                       /\ notified' = round.calls
                       /\ last' = Call("deleteTransaction", <<id>>,
                                       TRUE, w, round.threw)
              ELSE /\ transactions' = transactions
                   /\ notified' = <<>>
                   /\ last' = Call("deleteTransaction", <<id>>, FALSE, w, FALSE)
    /\ UNCHANGED <<categories, settings, ui, subscribers, now, initialised>>
    /\ shown' = NoList /\ UNCHANGED <<page, peer>>

\* state.importTransactions: the validated records replace the list.
importTransactions(txns, w) ==
    /\ initialised
    /\ Quota(w)
    /\ LET stored == storage_importTransactions(localStorage, txns, w)
       IN  /\ localStorage' = stored.ls
           /\ IF stored.ret
              THEN LET round == notifySubscribers(
                                    subscribers,
                                    getFullState(txns, categories, settings, ui))
                   IN  /\ transactions' = txns
                       /\ notified' = round.calls
                       /\ last' = Call("importTransactions", <<txns>>,
                                       TRUE, w, round.threw)
              ELSE /\ transactions' = transactions
                   /\ notified' = <<>>
                   /\ last' = Call("importTransactions", <<txns>>, FALSE, w, FALSE)
    /\ UNCHANGED <<categories, settings, ui, subscribers, now, initialised>>
    /\ shown' = NoList /\ UNCHANGED <<page, peer>>

clearAllTransactions(w) ==
    /\ initialised
    /\ Quota(w)
    /\ LET stored == clearTransactions(localStorage, w)
       IN  /\ localStorage' = stored.ls
           /\ IF stored.ret
              THEN LET round == notifySubscribers(
                                    subscribers,
                                    getFullState(<<>>, categories, settings, ui))
                   IN  /\ transactions' = <<>>
                       /\ notified' = round.calls
                       /\ last' = Call("clearAllTransactions", <<>>,
                                       TRUE, w, round.threw)
              ELSE /\ transactions' = transactions
                   /\ notified' = <<>>
                   /\ last' = Call("clearAllTransactions", <<>>, FALSE, w, FALSE)
    /\ UNCHANGED <<categories, settings, ui, subscribers, now, initialised>>
    /\ shown' = NoList /\ UNCHANGED <<page, peer>>

\* addCategory without the look-up in the mirror: only the store's own check
\* stands between a repeated name and the list.
addCategory_NoLookup(category, w) ==
    /\ initialised
    /\ Quota(w)
    /\ LET stored == storage_addCategory(localStorage, category, w)
       IN  /\ localStorage' = stored.ls
           /\ IF stored.ret
              THEN LET pushed == Append(categories, category)
                       round == notifySubscribers(
                                    subscribers,
                                    getFullState(transactions, pushed, settings, ui))
                   IN  /\ categories' = pushed
                       /\ notified' = round.calls
                       /\ last' = Call("addCategory", <<category>>,
                                       TRUE, w, round.threw)
              ELSE /\ categories' = categories
                   /\ notified' = <<>>
                   /\ last' = Call("addCategory", <<category>>, FALSE, w, FALSE)
    /\ UNCHANGED <<transactions, settings, ui, subscribers, now, initialised>>
    /\ shown' = NoList /\ UNCHANGED <<page, peer>>

addCategory(category, w) ==
    /\ initialised
    /\ Quota(w)
    /\ LET Same(c) == toLowerCase(c) = toLowerCase(category)
       IN  IF findIndex(categories, Same) # 0
           THEN /\ UNCHANGED <<localStorage, categories>>
                /\ notified' = <<>>
                /\ last' = Call("addCategory", <<category>>, FALSE, w, FALSE)
           ELSE LET stored == storage_addCategory(localStorage, category, w)
                IN  /\ localStorage' = stored.ls
                    /\ IF stored.ret
                       THEN LET pushed == Append(categories, category)
                                round == notifySubscribers(
                                             subscribers,
                                             getFullState(transactions, pushed,
                                                          settings, ui))
                            IN  /\ categories' = pushed
                                /\ notified' = round.calls
                                /\ last' = Call("addCategory", <<category>>,
                                                TRUE, w, round.threw)
                       ELSE /\ categories' = categories
                            /\ notified' = <<>>
                            /\ last' = Call("addCategory", <<category>>, FALSE, w, FALSE)
    /\ UNCHANGED <<transactions, settings, ui, subscribers, now, initialised>>
    /\ shown' = NoList /\ UNCHANGED <<page, peer>>

removeCategory(category, w) ==
    /\ initialised
    /\ Quota(w)
    /\ LET stored == storage_removeCategory(localStorage, category, w)
           Differs(c) == c # category
       IN  /\ localStorage' = stored.ls
           /\ IF stored.ret
              THEN LET filtered == SelectSeq(categories, Differs)
                       round == notifySubscribers(
                                    subscribers,
                                    getFullState(transactions, filtered, settings, ui))
                   IN  /\ categories' = filtered
                       /\ notified' = round.calls
                       /\ last' = Call("removeCategory", <<category>>,
                                       TRUE, w, round.threw)
              ELSE /\ categories' = categories
                   /\ notified' = <<>>
                   /\ last' = Call("removeCategory", <<category>>, FALSE, w, FALSE)
    /\ UNCHANGED <<transactions, settings, ui, subscribers, now, initialised>>
    /\ shown' = NoList /\ UNCHANGED <<page, peer>>

updateSettings(updates, w) ==
    /\ initialised
    /\ Quota(w)
    /\ LET stored == storage_updateSettings(localStorage, updates, w)
           round == notifySubscribers(
                        subscribers,
                        getFullState(transactions, categories, stored.ret, ui))
       IN  /\ localStorage' = stored.ls
           /\ settings' = stored.ret
           /\ notified' = round.calls
           /\ last' = Call("updateSettings", <<updates>>,
                           Undefined, w, round.threw)
    /\ UNCHANGED <<transactions, categories, ui, subscribers, now, initialised>>
    /\ shown' = NoList /\ UNCHANGED <<page, peer>>

\* subscribers.add(callback): a Set keeps one entry per callback.
subscribe(callback) ==
    /\ LET Is(c) == c = callback
       IN  subscribers' = IF findIndex(subscribers, Is) # 0 THEN subscribers
                          ELSE Append(subscribers, callback)
    /\ notified' = <<>>
    /\ UNCHANGED writeFailures
    /\ last' = Call("subscribe", <<callback>>, Undefined, TRUE, FALSE)
    /\ UNCHANGED <<localStorage, transactions, categories, settings, ui, now,
                   initialised>>
    /\ shown' = NoList /\ UNCHANGED <<page, peer>>

\* The function subscribe returned: subscribers.delete(callback).
unsubscribe(callback) ==
    /\ LET Is(c) == c = callback
           IsNot(c) == c # callback
       IN  /\ findIndex(subscribers, Is) # 0
           /\ subscribers' = SelectSeq(subscribers, IsNot)
    /\ notified' = <<>>
    /\ UNCHANGED writeFailures
    /\ last' = Call("unsubscribe", <<callback>>, Undefined, TRUE, FALSE)
    /\ UNCHANGED <<localStorage, transactions, categories, settings, ui, now,
                   initialised>>
    /\ shown' = NoList /\ UNCHANGED <<page, peer>>

\* Time passes between two calls.
Tick ==
    /\ now < MaxClock
    /\ now' = now + 1
    /\ UNCHANGED <<localStorage, transactions, categories, settings, ui,
                   subscribers, initialised, writeFailures, notified, shown,
                   page, peer, last>>

\* The transaction list, with the store refusing writes now and then.

----------------------------------------------------------------------------
(* The regular-expression engine, for the dialect the model's patterns are *)
(* written in: a pattern is a row of items; an item is a literal character *)
(* with an optional + or *, or a group ( ) around one such item, itself    *)
(* with an optional + or *.                                                *)

IsQuantifier(c) == c \in {"+", "*"}
IsLiteral(c) == c \notin {"(", ")", "+", "*"}

QuantifierAt(src, i) ==
    IF i <= Len(src) /\ IsQuantifier(src[i]) THEN src[i] ELSE "1"

Width(q) == IF q = "1" THEN 0 ELSE 1

\* The item c q1, in a group quantified q2 when grouped.
Atom(c, q1, q2) ==
    [ch |-> c,
     min |-> IF q1 = "*" \/ q2 = "*" THEN 0 ELSE 1,
     many |-> q1 # "1" \/ q2 # "1",
     nested |-> q1 # "1" /\ q2 # "1"]

\* The pattern compiler: the items of src from position i on, or the
\* SyntaxError of an unterminated group, an unmatched ")" or a quantifier
\* with nothing to repeat.
RECURSIVE parsePattern(_, _, _)
parsePattern(src, i, atoms) ==
    IF i > Len(src) THEN [ok |-> TRUE, atoms |-> atoms]
    ELSE IF IsLiteral(src[i])
    THEN LET q == QuantifierAt(src, i + 1)
         IN  parsePattern(src, i + 1 + Width(q), Append(atoms, Atom(src[i], q, "1")))
    ELSE IF src[i] = "(" /\ i + 1 <= Len(src) /\ IsLiteral(src[i + 1])
    THEN LET q1 == QuantifierAt(src, i + 2)
             close == i + 2 + Width(q1)
         IN  IF close <= Len(src) /\ src[close] = ")"
             THEN LET q2 == QuantifierAt(src, close + 1)
                  IN  parsePattern(src, close + 1 + Width(q2),
                                   Append(atoms, Atom(src[i + 1], q1, q2)))
             ELSE [ok |-> FALSE, atoms |-> <<>>]
    ELSE [ok |-> FALSE, atoms |-> <<>>]

\* new RegExp(pattern, flags): the object, or the SyntaxError thrown.
newRegExp(pattern, flags) ==
    IF parsePattern(pattern, 1, <<>>).ok
    THEN [threw |-> FALSE,
          regex |-> [source |-> pattern, flags |-> flags, lastIndex |-> 0]]
    ELSE [threw |-> TRUE, regex |-> [source |-> pattern, flags |-> flags,
                                     lastIndex |-> 0]]

CharMatches(ch, c, flags) ==
    IF "i" \in flags THEN toLowerCaseChar(ch) = toLowerCaseChar(c) ELSE ch = c

\* The number of characters from position i (1-based) on that match ch:
\* the run ends at the first position that is past the text or does not.
runLength(text, i, ch, flags) ==
    LET Stops(k) == k > Len(text) \/ ~CharMatches(ch, text[k], flags)
    IN  (CHOOSE k \in i..(Len(text) + 1) :
             Stops(k) /\ \A g \in i..(k - 1) : ~Stops(g)) - i

\* Of the positions a quantified item can end at (given from its longest run
\* down: ends[m] is where the rest of the pattern ends after m characters,
\* or 0), the one the matcher settles on: that of the largest m that fits.
longestFit(ends) ==
    IF \E m \in DOMAIN ends : ends[m] # 0
    THEN ends[CHOOSE m \in DOMAIN ends :
                  ends[m] # 0 /\ \A x \in DOMAIN ends : x > m => ends[x] = 0]
    ELSE 0

\* The backtracking matcher: the position after the match of atoms k.. that
\* starts at position i, or 0 when there is none.  A quantified item takes
\* the longest run first and gives characters back one at a time: it keeps
\* the largest number of characters after which the rest matches.
RECURSIVE matchFrom(_, _, _, _, _)
matchFrom(atoms, k, text, i, flags) ==
    IF k > Len(atoms) THEN i
    ELSE IF atoms[k].many
    THEN longestFit([m \in atoms[k].min..runLength(text, i, atoms[k].ch, flags) |->
                        matchFrom(atoms, k + 1, text, i + m, flags)])
    ELSE IF i <= Len(text) /\ CharMatches(atoms[k].ch, text[i], flags)
    THEN matchFrom(atoms, k + 1, text, i + 1, flags)
    ELSE 0

\* Of the matches at the start indices of DOMAIN ends (ends[f] is the
\* position after the match that starts at index f, or 0), the leftmost:
\* its start and end indices, 0-based, end exclusive.
leftmost(ends) ==
    IF \E f \in DOMAIN ends : ends[f] # 0
    THEN LET first == CHOOSE f \in DOMAIN ends :
                          ends[f] # 0 /\ \A g \in DOMAIN ends : g < f => ends[g] = 0
         IN  [found |-> TRUE, index |-> first, end |-> ends[first] - 1]
    ELSE [found |-> FALSE, index |-> 0, end |-> 0]

\* The leftmost match that starts at index from (0-based) or later.
searchFrom(atoms, text, from, flags) ==
    leftmost([f \in from..Len(text) |-> matchFrom(atoms, 1, text, f + 1, flags)])

\* What exec leaves: the match m, and lastIndex at its end, or reset to 0
\* when there is none.
execResult(regex, m) ==
    [match |-> m,
     regex |-> IF "g" \in regex.flags
               THEN [regex EXCEPT !.lastIndex = IF m.found THEN m.end ELSE 0]
               ELSE regex]

\* RegExp.prototype.exec: with the g flag the search starts at lastIndex.
regexExec(regex, text) ==
    execResult(regex,
               searchFrom(parsePattern(regex.source, 1, <<>>).atoms, text,
                          IF "g" \in regex.flags THEN regex.lastIndex ELSE 0,
                          regex.flags))

testResult(r) == [found |-> r.match.found, regex |-> r.regex]

\* RegExp.prototype.test
regexTest(regex, text) == testResult(regexExec(regex, text))

----------------------------------------------------------------------------
(* search.js: compileRegex *)

ProbeLength == 100
ProbeThresholdMs == 100

testString == [i \in 1..ProbeLength |-> "a"]

\* The time regex.test(testString) takes, given what the test returns.  A
\* quantified group around a quantified item that matches the probe's
\* character makes the engine try every way of splitting the run when the
\* rest of the pattern fails: more than the threshold.  Any other pattern
\* of the dialect is linear.
probeElapsed(atoms, flags, tested) ==
    IF /\ \E k \in 1..Len(atoms) :
              atoms[k].nested /\ CharMatches(atoms[k].ch, "a", flags)
       /\ ~tested.found
    THEN ProbeThresholdMs + 1
    ELSE 0

\* compileRegex after new RegExp: the probe and its verdict.
probe(regex, atoms, tested) ==
    IF probeElapsed(atoms, regex.flags, tested) > ProbeThresholdMs
    THEN [regex |-> Null, error |-> Some("Pattern is too complex")]
    ELSE [regex |-> Some(tested.regex), error |-> Null]

compiled(made) ==
    IF made.threw
    THEN [regex |-> Null, error |-> Some("Invalid pattern")]
    ELSE probe(made.regex, parsePattern(made.regex.source, 1, <<>>).atoms,
               regexTest(made.regex, testString))

compileRegex(input, flags) ==
    IF trim(input) = <<>>
    THEN [regex |-> Null, error |-> Null]
    ELSE compiled(newRegExp(trim(input), flags))

----------------------------------------------------------------------------
(* state.js: filtering and sorting.  A list of transactions is a sequence  *)
(* of positions in txns: the array holds the objects of the stored list.   *)

Digits == <<"0", "1", "2", "3", "4", "5", "6", "7", "8", "9">>

RECURSIVE digitsOf(_)
digitsOf(n) ==
    IF n < 10 THEN <<Digits[n + 1]>>
    ELSE digitsOf(n \div 10) \o <<Digits[(n % 10) + 1]>>

\* String(amount) of an amount of c cents: 250 is "2.5", 205 is "2.05".
amountToString(c) ==
    LET whole == digitsOf(c \div 100)
        frac == c % 100
    IN  IF frac = 0 THEN whole
        ELSE IF frac % 10 = 0 THEN whole \o <<".">> \o digitsOf(frac \div 10)
        ELSE whole \o <<".", Digits[(frac \div 10) + 1], Digits[(frac % 10) + 1]>>

digitValue(c) == (CHOOSE k \in 1..10 : Digits[k] = c) - 1

RECURSIVE numberOf(_)
numberOf(ds) ==
    IF ds = <<>> THEN 0
    ELSE 10 * numberOf(SubSeq(ds, 1, Len(ds) - 1)) + digitValue(ds[Len(ds)])

\* new Date("YYYY-MM-DD").getTime(): midnight UTC of the day, counted in
\* whole days from 1970-01-01 on (the value in ms is 86400000 times this).
dateValue(s) ==
    LET y == numberOf(SubSeq(s, 1, 4))
        m == numberOf(SubSeq(s, 6, 7))
        d == numberOf(SubSeq(s, 9, 10))
        yy == IF m <= 2 THEN y - 1 ELSE y
        mp == (m + 9) % 12
        days == 365 * yy + (yy \div 4) - (yy \div 100) + (yy \div 400)
                + ((153 * mp + 2) \div 5) + d - 1
    IN  days - 719468

\* The collation order of the characters of descriptions.
Collation ==
    <<" ", "-", "0", "1", "2", "3", "4", "5", "6", "7", "8", "9",
      "a", "b", "c", "d", "e", "f", "g", "h", "i", "j", "k", "l", "m",
      "n", "o", "p", "q", "r", "s", "t", "u", "v", "w", "x", "y", "z">>

rank(c) == CHOOSE k \in 1..Len(Collation) : Collation[k] = toLowerCaseChar(c)

\* Lexical comparison of two sequences of numbers.
RECURSIVE lexCompare(_, _)
lexCompare(a, b) ==
    IF a = <<>> /\ b = <<>> THEN 0
    ELSE IF a = <<>> THEN -1
    ELSE IF b = <<>> THEN 1
    ELSE IF Head(a) < Head(b) THEN -1
    ELSE IF Head(a) > Head(b) THEN 1
    ELSE lexCompare(Tail(a), Tail(b))

\* String.prototype.localeCompare: by letters first, and between strings of
\* the same letters a lower-case letter sorts before its upper-case one.
localeCompare(a, b) ==
    LET letters(s) == [i \in 1..Len(s) |-> rank(s[i])]
        cases(s) == [i \in 1..Len(s) |-> IF s[i] = toLowerCaseChar(s[i]) THEN 0 ELSE 1]
        primary == lexCompare(letters(a), letters(b))
    IN  IF primary # 0 THEN primary ELSE lexCompare(cases(a), cases(b))

\* sortKey.split('-')
RECURSIVE split(_, _)
split(s, sep) ==
    LET IsSep(c) == c = sep
        at == findIndex(s, IsSep)
    IN  IF at = 0 THEN <<s>>
        ELSE <<SubSeq(s, 1, at - 1)>> \o split(SubSeq(s, at + 1, Len(s)), sep)

DateField == <<"d", "a", "t", "e">>
DescriptionField == <<"d", "e", "s", "c", "r", "i", "p", "t", "i", "o", "n">>
AmountField == <<"a", "m", "o", "u", "n", "t">>
Asc == <<"a", "s", "c">>
Desc == <<"d", "e", "s", "c">>

\* The comparator sortTransactions hands to Array.prototype.sort.
comparator(a, b, sortKey) ==
    LET parts == split(sortKey, "-")
        field == parts[1]
        direction == IF Len(parts) >= 2 THEN parts[2] ELSE <<>>
        multiplier == IF direction = Asc THEN 1 ELSE -1
        comparison ==
            IF field = DateField THEN dateValue(a.date) - dateValue(b.date)
            ELSE IF field = DescriptionField
            THEN localeCompare(a.description, b.description)
            ELSE IF field = AmountField THEN a.amount - b.amount
            ELSE 0
    IN  comparison * multiplier

\* Array.prototype.sort is stable: an element goes before the first one of
\* the sorted part that the comparator puts after it.
RECURSIVE insertSorted(_, _, _, _)
insertSorted(txns, sorted, x, sortKey) ==
    IF sorted = <<>> THEN <<x>>
    ELSE IF comparator(txns[Head(sorted)], txns[x], sortKey) > 0
    THEN <<x>> \o sorted
    ELSE <<Head(sorted)>> \o insertSorted(txns, Tail(sorted), x, sortKey)

RECURSIVE sortFrom(_, _, _, _, _)
sortFrom(txns, list, i, sorted, sortKey) ==
    IF i > Len(list) THEN sorted
    ELSE sortFrom(txns, list, i + 1, insertSorted(txns, sorted, list[i], sortKey),
                  sortKey)

\* Reverse of a sequence.
RECURSIVE Reverse(_)
Reverse(s) == IF s = <<>> THEN <<>> ELSE Append(Reverse(Tail(s)), Head(s))

\* sortTransactions with "desc" done as the reversal of the ascending sort.
sortTransactions_ReversedDesc(txns, list, sortKey) ==
    LET parts == split(sortKey, "-")
        ascKey == parts[1] \o <<"-">> \o Asc
        ascending == sortFrom(txns, list, 1, <<>>, ascKey)
    IN  IF Len(parts) >= 2 /\ parts[2] = Asc THEN ascending ELSE Reverse(ascending)

sortTransactions(txns, list, sortKey) == sortFrom(txns, list, 1, <<>>, sortKey)

\* a || regex.test(text): the test runs only when a found nothing, and
\* starts where a left lastIndex.
orTest(a, text) == IF a.found THEN a ELSE regexTest(a.regex, text)

\* The filter callback of getFilteredTransactions: the stored regex is
\* tested on the four fields in turn, each test starting where the one
\* before left lastIndex.
testFields(regex, t) ==
    orTest(orTest(orTest(regexTest(regex, t.description), t.category),
                  amountToString(t.amount)),
           t.date)

\* filtered.filter(callback): the records of list the callback accepts, and
\* the regex as the tests leave it.
RECURSIVE filterBySearch(_, _, _, _, _)
RECURSIVE filterNext(_, _, _, _, _)
filterBySearch(txns, list, i, regex, kept) ==
    IF i > Len(list) THEN [kept |-> kept, regex |-> regex]
    ELSE filterNext(txns, list, i, kept, testFields(regex, txns[list[i]]))

filterNext(txns, list, i, kept, r) ==
    filterBySearch(txns, list, i + 1, r.regex,
                   IF r.found THEN Append(kept, list[i]) ELSE kept)

\* The positions 1..n in order.
RECURSIVE positions(_)
positions(n) == IF n = 0 THEN <<>> ELSE Append(positions(n - 1), n)

\* The records at the positions of list.
RECURSIVE recordsAt(_, _)
recordsAt(txns, list) ==
    IF list = <<>> THEN <<>>
    ELSE <<txns[Head(list)]>> \o recordsAt(txns, Tail(list))

\* The category filter of getFilteredTransactions.
filterByCategory(txns, categoryFilter) ==
    LET InCategory(i) == txns[i].category = categoryFilter
    IN  IF categoryFilter # <<>> THEN SelectSeq(positions(Len(txns)), InCategory)
        ELSE positions(Len(txns))

searched(r) == [kept |-> r.kept, searchRegex |-> Some(r.regex)]

\* The list before sorting, and the regex as the tests leave it.
filterStep(txns, u) ==
    IF u.searchRegex # Null
    THEN searched(filterBySearch(txns, filterByCategory(txns, u.categoryFilter), 1,
                                 u.searchRegex[1], <<>>))
    ELSE [kept |-> filterByCategory(txns, u.categoryFilter), searchRegex |-> Null]

\* The filtered list, sorted.
sortStep(txns, step, sortKey) ==
    [kept |-> step.kept, searchRegex |-> step.searchRegex,
     result |-> sortTransactions(txns, step.kept, sortKey)]

\* What a call leaves: the regex as tested, and the list returned.
returned(step) ==
    /\ ui' = [ui EXCEPT !.searchRegex = step.searchRegex]
    /\ shown' = [kept |-> step.kept, result |-> step.result]
    /\ UNCHANGED <<page, peer>>
    /\ last' = Call("getFilteredTransactions", <<>>,
                    recordsAt(transactions, step.result), TRUE, FALSE)

getFilteredTransactions ==
    /\ initialised
    /\ returned(sortStep(transactions, filterStep(transactions, ui), ui.sortBy))
    /\ notified' = <<>>
    /\ UNCHANGED <<localStorage, transactions, categories, settings, subscribers,
                   now, initialised, writeFailures>>

----------------------------------------------------------------------------
(* state.js: UI state setters *)

\* A setter's common part: the changed UI state is published.
publishUI(changed, op, arg, ret) ==
    /\ initialised
    /\ LET round == notifySubscribers(
                        subscribers,
                        getFullState(transactions, categories, settings, changed))
       IN  /\ ui' = changed
           /\ notified' = round.calls
           /\ last' = Call(op, arg, ret, TRUE, round.threw)
    /\ shown' = NoList
    /\ UNCHANGED <<localStorage, transactions, categories, settings, subscribers,
                   now, initialised, writeFailures, peer>>

\* A setter called from elsewhere than the page's own timeout.
setUI(changed, op, arg, ret) ==
    /\ publishUI(changed, op, arg, ret)
    /\ UNCHANGED page

\* setSearchQuery whose catch branch leaves state.ui.searchRegex as it was.
setSearchQuery_KeepsStale(query, caseInsensitive) ==
    IF trim(query) = <<>>
    THEN publishUI([ui EXCEPT !.searchQuery = query, !.searchRegex = Null],
                   "setSearchQuery", <<query, caseInsensitive>>,
                   [valid |-> TRUE, error |-> Null])
    ELSE LET flags == IF caseInsensitive THEN {"g", "i"} ELSE {"g"}
             made == newRegExp(query, flags)
         IN  IF ~made.threw
             THEN publishUI([ui EXCEPT !.searchQuery = query,
                                       !.searchRegex = Some(made.regex)],
                            "setSearchQuery", <<query, caseInsensitive>>,
                            [valid |-> TRUE, error |-> Null])
             ELSE publishUI([ui EXCEPT !.searchQuery = query],
                            "setSearchQuery", <<query, caseInsensitive>>,
                            [valid |-> FALSE, error |-> Some("Invalid regex pattern")])

setSearchQuery(query, caseInsensitive) ==
    IF trim(query) = <<>>
    THEN publishUI([ui EXCEPT !.searchQuery = query, !.searchRegex = Null],
                   "setSearchQuery", <<query, caseInsensitive>>,
                   [valid |-> TRUE, error |-> Null])
    ELSE LET flags == IF caseInsensitive THEN {"g", "i"} ELSE {"g"}
             made == newRegExp(query, flags)
         IN  IF ~made.threw
             THEN publishUI([ui EXCEPT !.searchQuery = query,
                                       !.searchRegex = Some(made.regex)],
                            "setSearchQuery", <<query, caseInsensitive>>,
                            [valid |-> TRUE, error |-> Null])
             ELSE publishUI([ui EXCEPT !.searchQuery = query, !.searchRegex = Null],
                            "setSearchQuery", <<query, caseInsensitive>>,
                            [valid |-> FALSE, error |-> Some("Invalid regex pattern")])

setSortBy(sortBy) ==
    setUI([ui EXCEPT !.sortBy = sortBy], "setSortBy", <<sortBy>>, Undefined)

setCategoryFilter(category) ==
    setUI([ui EXCEPT !.categoryFilter = category], "setCategoryFilter",
          <<category>>, Undefined)

setLoading(loading) ==
    setUI([ui EXCEPT !.isLoading = loading], "setLoading", <<loading>>, Undefined)

----------------------------------------------------------------------------
(* state.js: the getters, and what a caller holds afterwards.  A getter    *)
(* copies one level: the array or object it returns is new, and the        *)
(* transaction records and the exchangeRates table inside it are the       *)
(* objects the state itself holds.  An object of the state is named by the *)
(* place the state keeps it in.                                            *)

TransactionAt(i) == [of |-> "transactions", at |-> i]
RatesTable == [of |-> "exchangeRates", at |-> 0]
OwnCopy == [of |-> "copy", at |-> 0]

\* What a getter returned: the value, and the objects reachable in it: the
\* new container when there is one, and the objects of the state.
Got(value, objects) == [value |-> value, objects |-> objects]

getter(op, arg, got) ==
    /\ initialised
    /\ last' = Call(op, arg, got, TRUE, FALSE)
    /\ notified' = <<>>
    /\ shown' = NoList /\ UNCHANGED <<page, peer>>
    /\ UNCHANGED <<localStorage, transactions, categories, settings, ui,
                   subscribers, now, initialised, writeFailures>>

AllRecords == {TransactionAt(i) : i \in 1..Len(transactions)}

\* [...state.transactions]
getTransactions ==
    getter("getTransactions", <<>>, Got(transactions, {OwnCopy} \cup AllRecords))

\* state.transactions.find(...) || null: the record itself.
readTransaction(id) ==
    LET Has(t) == t.id = id
        at == findIndex(transactions, Has)
    IN  getter("getTransaction", <<id>>,
             Got(getTransaction(transactions, id),
                 IF at = 0 THEN {} ELSE {TransactionAt(at)}))

\* [...state.categories]: the entries are strings.
getCategories == getter("getCategories", <<>>, Got(categories, {OwnCopy}))

\* { ...state.settings }
getSettings == getter("getSettings", <<>>, Got(settings, {OwnCopy, RatesTable}))

\* { ...state.ui }: no search is active, every property is a primitive.
getUIState ==
    /\ ui.searchRegex = Null
    /\ getter("getUIState", <<>>, Got(ui, {OwnCopy}))

\* getFullState(), which is also the snapshot a subscriber is called with.
readFullState ==
    getter("getFullState", <<>>,
         Got(getFullState(transactions, categories, settings, ui),
             {OwnCopy, RatesTable} \cup AllRecords))

Getters ==
    {"getTransactions", "getTransaction", "getCategories", "getSettings",
     "getUIState", "getFullState"}

\* The objects in what the last call returned; getFilteredTransactions
\* returns a new array of the records at the positions shown.result.
heldObjects ==
    IF last.op \in Getters THEN last.ret.objects
    ELSE IF last.op = "getFilteredTransactions"
    THEN {OwnCopy} \cup {TransactionAt(shown.result[j]) : j \in 1..Len(shown.result)}
    ELSE {}

CallerValues == {0}

\* The caller assigns x to a property of an object it got: the amount of a
\* record, the EUR rate of the table, or any property of the new container.
callerWrites(object, x) ==
    /\ object \in heldObjects
    /\ transactions' =
           IF object.of = "transactions"
           THEN [transactions EXCEPT ![object.at].amount = x]
           ELSE transactions
    /\ settings' =
           IF object.of = "exchangeRates"
           THEN [settings EXCEPT !.exchangeRates.EUR = x]
           ELSE settings
    /\ last' = Call("callerWrites", <<object, x>>, Undefined, TRUE, FALSE)
    /\ notified' = <<>>
    /\ shown' = NoList /\ UNCHANGED <<page, peer>>
    /\ UNCHANGED <<localStorage, categories, ui, subscribers, now, initialised,
                   writeFailures>>

----------------------------------------------------------------------------
(* validators.js: the field validators.  A result is the record            *)
(* { valid, error }; the error is named by its first words.                *)

LowerCase == {Collation[k] : k \in 13..Len(Collation)}
Letters == LowerCase \cup DOMAIN UpperToLower
DigitChars == {Digits[k] : k \in 1..Len(Digits)}

\* \w, \s and [A-Za-z] of the patterns.
IsWord(c) == c \in Letters \cup DigitChars \cup {"_"}
IsSpace(c) == c = Space
IsLetter(c) == c \in Letters

Valid == [valid |-> TRUE, error |-> Null]
Invalid(error) == [valid |-> FALSE, error |-> Some(error)]

\* \b between positions i - 1 and i of s.
wordBoundary(s, i) ==
    LET before == i > 1 /\ IsWord(s[i - 1])
        after == i <= Len(s) /\ IsWord(s[i])
    IN  before # after

\* PATTERNS.duplicateWord, /\b(\w+)\s+\1\b/gi: a run of word characters
\* s[i..j-1], white space s[j..k-1], and the same run again, ignoring case.
duplicateWord(s) ==
    \E i \in 1..Len(s), j \in 2..Len(s), k \in 3..Len(s) :
        /\ i < j /\ j < k /\ k + (j - i) - 1 <= Len(s)
        /\ wordBoundary(s, i)
        /\ \A p \in i..(j - 1) : IsWord(s[p])
        /\ \A p \in j..(k - 1) : IsSpace(s[p])
        /\ toLowerCase(SubSeq(s, k, k + (j - i) - 1)) = toLowerCase(SubSeq(s, i, j - 1))
        /\ wordBoundary(s, k + (j - i))

MinDescription == 2
MaxDescription == 200

validateDescription(value) ==
    IF trim(value) = <<>> THEN Invalid("required")
    ELSE IF value # trim(value) THEN Invalid("leading or trailing spaces")
    ELSE IF \E i \in 1..(Len(value) - 1) : IsSpace(value[i]) /\ IsSpace(value[i + 1])
    THEN Invalid("consecutive spaces")
    ELSE IF Len(value) < MinDescription THEN Invalid("too short")
    ELSE IF Len(value) > MaxDescription THEN Invalid("too long")
    ELSE IF duplicateWord(value) THEN Invalid("duplicate word")
    ELSE IF ~(~IsSpace(value[1]) /\ ~IsSpace(value[Len(value)]))
    THEN Invalid("format")
    ELSE Valid

AllDigits(s) == \A i \in 1..Len(s) : s[i] \in DigitChars

\* PATTERNS.amount with \d+ for the whole part.
amountPattern_AnyWhole(s) ==
    LET IsDot(c) == c = "."
        dot == findIndex(s, IsDot)
        whole == IF dot = 0 THEN s ELSE SubSeq(s, 1, dot - 1)
        frac == IF dot = 0 THEN <<>> ELSE SubSeq(s, dot + 1, Len(s))
    IN  /\ whole # <<>>
        /\ AllDigits(whole)
        /\ dot # 0 => Len(frac) \in 1..2 /\ AllDigits(frac)

\* PATTERNS.amount, /^(0|[1-9]\d*)(\.\d{1,2})?$/
amountPattern(s) ==
    LET IsDot(c) == c = "."
        dot == findIndex(s, IsDot)
        whole == IF dot = 0 THEN s ELSE SubSeq(s, 1, dot - 1)
        frac == IF dot = 0 THEN <<>> ELSE SubSeq(s, dot + 1, Len(s))
    IN  /\ whole # <<>>
        /\ AllDigits(whole)
        /\ whole = <<"0">> \/ whole[1] # "0"
        /\ dot # 0 => Len(frac) \in 1..2 /\ AllDigits(frac)

\* parseFloat of a string that matches PATTERNS.amount, in cents.
parseCents(s) ==
    LET IsDot(c) == c = "."
        dot == findIndex(s, IsDot)
        whole == IF dot = 0 THEN s ELSE SubSeq(s, 1, dot - 1)
        frac == IF dot = 0 THEN <<>> ELSE SubSeq(s, dot + 1, Len(s))
    IN  100 * numberOf(whole)
        + (IF Len(frac) = 1 THEN 10 * numberOf(frac) ELSE numberOf(frac))

MaxAmount == 99999999

validateAmount(value) ==
    IF trim(value) = <<>> THEN Invalid("required")
    ELSE IF ~amountPattern(trim(value)) THEN Invalid("format")
    ELSE IF parseCents(trim(value)) < 0 THEN Invalid("negative")
    ELSE IF parseCents(trim(value)) > MaxAmount THEN Invalid("too large")
    ELSE Valid

\* PATTERNS.date, /^\d{4}-(0[1-9]|1[0-2])-(0[1-9]|[12]\d|3[01])$/
datePattern(s) ==
    /\ Len(s) = 10
    /\ s[5] = "-" /\ s[8] = "-"
    /\ AllDigits(SubSeq(s, 1, 4))
    /\ AllDigits(SubSeq(s, 6, 7)) /\ numberOf(SubSeq(s, 6, 7)) \in 1..12
    /\ AllDigits(SubSeq(s, 9, 10)) /\ numberOf(SubSeq(s, 9, 10)) \in 1..31

\* The days of month m of year y, which new Date(y, m - 1, d) rolls over.
daysInMonth(y, m) ==
    IF m = 2
    THEN IF (y % 4 = 0 /\ y % 100 # 0) \/ y % 400 = 0 THEN 29 ELSE 28
    ELSE IF m \in {4, 6, 9, 11} THEN 30 ELSE 31

\* new Date().getFullYear() while the program runs.
currentYear == 2025
FirstYear == 2000
YearsAhead == 10

validateDate(value) ==
    IF trim(value) = <<>> THEN Invalid("required")
    ELSE IF ~datePattern(trim(value)) THEN Invalid("format")
    ELSE LET trimmed == trim(value)
             year == numberOf(SubSeq(trimmed, 1, 4))
             month == numberOf(SubSeq(trimmed, 6, 7))
             day == numberOf(SubSeq(trimmed, 9, 10))
         IN  IF day > daysInMonth(year, month) THEN Invalid("not a real date")
             ELSE IF year < FirstYear \/ year > currentYear + YearsAhead
             THEN Invalid("year out of range")
             ELSE Valid

\* PATTERNS.category, /^[A-Za-z]+(?:[ -][A-Za-z]+)*$/
categoryPattern(s) ==
    /\ s # <<>>
    /\ IsLetter(s[1]) /\ IsLetter(s[Len(s)])
    /\ \A i \in 1..Len(s) : IsLetter(s[i]) \/ s[i] \in {Space, "-"}
    /\ \A i \in 1..(Len(s) - 1) : IsLetter(s[i]) \/ IsLetter(s[i + 1])

MinCategory == 2
MaxCategory == 50

validateCategory(value) ==
    IF trim(value) = <<>> THEN Invalid("required")
    ELSE IF ~categoryPattern(trim(value)) THEN Invalid("format")
    ELSE IF Len(trim(value)) < MinCategory THEN Invalid("too short")
    ELSE IF Len(trim(value)) > MaxCategory THEN Invalid("too long")
    ELSE Valid

\* String(n) of a number of c cents.
numberToString(c) ==
    IF c < 0 THEN <<"-">> \o amountToString(-c) ELSE amountToString(c)

\* The fields of the transaction that fail their validator.
fieldErrors(transaction) ==
    {f \in {"description", "amount", "date", "category"} :
        ~(CASE f = "description" -> validateDescription(transaction.description)
            [] f = "amount" -> validateAmount(transaction.amount)
            [] f = "date" -> validateDate(transaction.date)
            [] f = "category" -> validateCategory(transaction.category)).valid}

validateTransaction(transaction) ==
    LET errors == fieldErrors(transaction)
    IN  [valid |-> errors = {}, errors |-> errors]

RequiredFields == {"description", "amount", "category", "date"}

\* One turn of validateImportData's loop: whether item i adds to errors.
itemFails(item) ==
    IF RequiredFields \ DOMAIN item # {} THEN TRUE
    ELSE ~validateTransaction([description |-> item.description,
                               amount |-> numberToString(item.amount),
                               date |-> item.date,
                               category |-> item.category]).valid

\* The loop of validateImportData from item i on: the indices of the items
\* pushed to errors and the records pushed to validatedData.
RECURSIVE validateItems(_, _, _, _)
validateItems(data, t, rs, i) ==
    IF i > Len(data) THEN [errors |-> <<>>, validatedData |-> <<>>]
    ELSE LET rest == validateItems(data, t, rs, i + 1)
         IN  IF itemFails(data[i])
             THEN [rest EXCEPT !.errors = <<i>> \o @]
             ELSE [rest EXCEPT
                       !.validatedData = <<normalizeItem(data[i], t, rs[i])>> \o @]

validateImportData(data, t, rs) ==
    IF Len(data) = 0 THEN [valid |-> FALSE, error |-> Some("empty"), data |-> Null]
    ELSE LET loop == validateItems(data, t, rs, 1)
         IN  IF Len(loop.errors) > 0
             THEN [valid |-> FALSE, error |-> Some("validation errors"),
                   data |-> Null]
             ELSE [valid |-> TRUE, error |-> Null,
                   data |-> Some(loop.validatedData)]

\* Parsed import files: the ones that pass validation, one with a negative
\* amount after a valid item, one whose item has no date, one whose
\* description repeats a word, and the empty array.
NegativeItem ==
    [description |-> <<"b", "u", "s">>, amount |-> -100, date |-> D0916,
     category |-> Transport]

UndatedItem ==
    [description |-> <<"b", "u", "s">>, amount |-> 100, category |-> Transport]

RepeatingItem ==
    [description |-> <<"t", "e", "a", " ", "T", "e", "a">>, amount |-> 100,
     date |-> D0916, category |-> Food]

RejectedFiles ==
    {<<NewItem, NegativeItem>>, <<UndatedItem>>, <<RepeatingItem, NewItem>>, <<>>}

\* The import handler: a file that fails validation is reported and nothing
\* else happens; the data of a file that passes replaces the list.
importFile(data, rs, w) ==
    LET validation == validateImportData(data, now, rs)
    IN  IF validation.valid
        THEN importTransactions(validation.data[1], w)
        ELSE /\ initialised
             /\ w
             /\ last' = Call("importFile", <<data>>, validation, w, FALSE)
             /\ notified' = <<>>
             /\ shown' = NoList /\ UNCHANGED <<page, peer>>
             /\ UNCHANGED <<localStorage, transactions, categories, settings,
                            ui, subscribers, now, initialised, writeFailures>>

----------------------------------------------------------------------------
(* app.js: the handlers of the form, the list and the data buttons.  The   *)
(* hidden edit-id field of the form holds the editing id: the edit click,  *)
(* the cancel and the successful update write both together.               *)

\* state.addCategory, state.addTransaction and state.updateTransaction as
\* functions of the store and the mirror.
categoryAdded(ls, cats, category, w) ==
    LET Same(c) == toLowerCase(c) = toLowerCase(category)
    IN  IF findIndex(cats, Same) # 0
        THEN [ls |-> ls, categories |-> cats, ret |-> FALSE]
        ELSE LET stored == storage_addCategory(ls, category, w)
             IN  [ls |-> stored.ls,
                  categories |-> IF stored.ret THEN Append(cats, category) ELSE cats,
                  ret |-> stored.ret]

transactionAdded(ls, txns, data, t, r, w) ==
    LET stored == storage_addTransaction(ls, data, t, r, w)
    IN  [ls |-> stored.ls,
         transactions |-> IF stored.ret # Null THEN Append(txns, stored.ret[1])
                          ELSE txns,
         ret |-> stored.ret]

transactionUpdated(ls, txns, id, data, t, w) ==
    LET stored == storage_updateTransaction(ls, id, data, t, w)
        HasId(x) == x.id = id
        index == findIndex(txns, HasId)
    IN  [ls |-> stored.ls,
         transactions |-> IF stored.ret # Null /\ index # 0
                          THEN [txns EXCEPT ![index] = stored.ret[1]]
                          ELSE txns,
         ret |-> stored.ret]

\* What handleFormSubmit leaves: the store, the mirror, the editing id and
\* the message shown.
Submitted(ls, txns, cats, editingId, outcome) ==
    [ls |-> ls, transactions |-> txns, categories |-> cats,
     editingId |-> editingId, outcome |-> outcome]

\* handleFormSubmit from "Validate all fields" on; cat is what the custom
\* category step left.
submitFields(form, category, cat, txns, editId, t, r, w) ==
    IF ~validateTransaction([description |-> form.description,
                             amount |-> form.amount,
                             date |-> form.date,
                             category |-> category]).valid
    THEN Submitted(cat.ls, txns, cat.categories, editId, "form errors")
    ELSE LET data == [description |-> trim(form.description),
                      amount |-> parseCents(trim(form.amount)),
                      date |-> form.date,
                      category |-> category]
         IN  IF editId # Null
             THEN LET updated == transactionUpdated(cat.ls, txns, editId[1], data, t, w)
                  IN  IF updated.ret # Null
                      THEN Submitted(updated.ls, updated.transactions,
                                     cat.categories, Null, "updated")
                      ELSE Submitted(updated.ls, updated.transactions,
                                     cat.categories, editId, "update failed")
             ELSE LET created == transactionAdded(cat.ls, txns, data, t, r, w)
                  IN  Submitted(created.ls, created.transactions, cat.categories,
                                editId,
                                IF created.ret # Null THEN "added" ELSE "add failed")

submitForm(form, ls, txns, cats, editId, t, r, w) ==
    LET customCategory == trim(form.customCategory)
    IN  IF customCategory = <<>>
        THEN submitFields(form, form.category,
                          [ls |-> ls, categories |-> cats, ret |-> FALSE],
                          txns, editId, t, r, w)
        ELSE IF ~validateCategory(customCategory).valid
        THEN Submitted(ls, txns, cats, editId, "custom category error")
        ELSE submitFields(form, customCategory,
                          categoryAdded(ls, cats, customCategory, w),
                          txns, editId, t, r, w)

\* The handler leaves the state, and tells the subscribers of it, as its
\* last mutator left it.
handled(op, arg, done, w) ==
    /\ localStorage' = done.ls
    /\ transactions' = done.transactions
    /\ categories' = done.categories
    /\ ui' = [ui EXCEPT !.editingId = done.editingId]
    /\ LET round == notifySubscribers(
                        subscribers,
                        getFullState(done.transactions, done.categories, settings,
                                     [ui EXCEPT !.editingId = done.editingId]))
       IN  /\ notified' = round.calls
           /\ last' = Call(op, arg, done.outcome, w, round.threw)
    /\ shown' = NoList /\ UNCHANGED <<page, peer>>
    /\ UNCHANGED <<settings, subscribers, now, initialised>>

handleFormSubmit(form, r, w) ==
    /\ initialised
    /\ Quota(w)
    /\ \/ ui.editingId # Null
       \/ /\ Len(transactions) < MaxTxns
          /\ Len(loadTransactions(localStorage)) < MaxTxns
    /\ handled("handleFormSubmit", <<form>>,
               submitForm(form, localStorage, transactions, categories,
                          ui.editingId, now, r, w),
               w)

\* handleTransactionAction on an edit button of the list.
editClick(id) ==
    /\ \E i \in 1..Len(transactions) : transactions[i].id = id
    /\ setUI([ui EXCEPT !.editingId = Some(id),
                        !.currentSection = "add-transaction"],
             "editClick", <<id>>, Undefined)

\* The cancel button of the form.
cancelEdit ==
    setUI([ui EXCEPT !.editingId = Null], "cancelEdit", <<>>, Undefined)

\* handleTransactionAction on a delete button and the confirmation in the
\* modal dialog that it opens.
confirmDelete(id, w) ==
    /\ \E i \in 1..Len(transactions) : transactions[i].id = id
    /\ deleteTransaction(id, w)

----------------------------------------------------------------------------
(* The specifications of the data mutators *)

Next ==
    \/ \E w \in BOOLEAN : initState(w)
    \/ \E d \in TxnInputs, r \in Rand, w \in BOOLEAN : addTransaction(d, r, w)
    \/ \E id \in Ids, u \in TxnUpdates, w \in BOOLEAN : updateTransaction(id, u, w)
    \/ \E id \in Ids, w \in BOOLEAN : deleteTransaction(id, w)
    \/ \E f \in ImportFiles :
           \E rs \in [1..Len(f) -> Rand], w \in BOOLEAN : importFile(f, rs, w)
    \/ \E w \in BOOLEAN : clearAllTransactions(w)
    \/ subscribe("render")
    \/ unsubscribe("render")
    \/ Tick

Spec == Init /\ [][Next]_vars

\* The category list, the settings and a UI flag, with every callback.
NextCatalog ==
    \/ \E w \in BOOLEAN : initState(w)
    \/ \E c \in CategoryInputs, w \in BOOLEAN : addCategory(c, w)
    \/ \E c \in CategoryRemovals, w \in BOOLEAN : removeCategory(c, w)
    \/ \E u \in SettingsUpdates, w \in BOOLEAN : updateSettings(u, w)
    \/ \E b \in BOOLEAN : setLoading(b)
    \/ \E cb \in Callbacks : subscribe(cb)
    \/ \E cb \in Callbacks : unsubscribe(cb)

SpecCatalog == Init /\ [][NextCatalog]_vars

----------------------------------------------------------------------------
(* The ledger: records of different contents added and edited *)

LedgerInputs ==
    TxnInputs \cup {[description |-> <<"b", "u", "s">>, amount |-> 100,
                     date |-> D0916, category |-> Transport]}

LedgerUpdates == TxnUpdates \cup {[description |-> <<"b", "u", "n">>]}

NextLedger ==
    \/ \E w \in BOOLEAN : initState(w)
    \/ \E d \in LedgerInputs, r \in Rand, w \in BOOLEAN : addTransaction(d, r, w)
    \/ \E id \in Ids, u \in LedgerUpdates, w \in BOOLEAN : updateTransaction(id, u, w)
    \/ Tick

SpecLedger == Init /\ [][NextLedger]_vars

\* Importing files, valid and not, into a list that forms entry and earlier
\* imports filled.
NextImport ==
    \/ \E w \in BOOLEAN : initState(w)
    \/ \E d \in TxnInputs, r \in Rand, w \in BOOLEAN : addTransaction(d, r, w)
    \/ \E f \in ImportFiles \cup RejectedFiles :
           \E rs \in [1..Len(f) -> Rand], w \in BOOLEAN : importFile(f, rs, w)
    \/ Tick

SpecImport == Init /\ [][NextImport]_vars

\* The settings form: a budget cap, a display currency, a table of rates.
SettingsInputs ==
    SettingsUpdates
    \cup {[displayCurrency |-> "EUR"],
          [exchangeRates |-> [EUR |-> DefaultRateEUR + 1, RWF |-> DefaultRateRWF]]}

NextSettings ==
    \/ \E w \in BOOLEAN : initState(w)
    \/ \E u \in SettingsInputs, w \in BOOLEAN : updateSettings(u, w)
    \/ subscribe("render")
    \/ Tick

SpecSettings == Init /\ [][NextSettings]_vars

\* The statistics of a list: up to MaxStatTxns records of two categories,
\* with amounts 0, 1.00 and 2.00, under no cap and under caps of 2.50 and
\* 5.00.
MaxStatTxns == 3
StatCategories == {Food, Books}
StatAmounts == {0, 100, 200}
BudgetCaps == {0, 250, 500}

statRecord(i, c, a) ==
    [id |-> generateId(0, i), description |-> <<"t", "e", "a">>, amount |-> a,
     category |-> c, date |-> D0915, createdAt |-> toISOString(0),
     updatedAt |-> toISOString(0)]

RECURSIVE statList(_, _)
statList(f, n) ==
    IF n = 0 THEN <<>>
    ELSE Append(statList(f, n - 1), statRecord(n, f[n][1], f[n][2]))

StatLists ==
    UNION {{statList(f, n) : f \in [1..n -> StatCategories \X StatAmounts]} :
              n \in 0..MaxStatTxns}

InitStats ==
    /\ \E l \in StatLists, cap \in BudgetCaps :
           /\ transactions = l
           /\ settings = [DEFAULT_SETTINGS EXCEPT !.budgetCap = cap]
           /\ localStorage = [transactions |-> Some(l),
                              settings |-> Some(settings),
                              categories |-> Some(DEFAULT_CATEGORIES)]
    /\ categories = DEFAULT_CATEGORIES
    /\ ui = InitialUI
    /\ subscribers = <<>>
    /\ now = MaxClock
    /\ initialised = TRUE
    /\ writeFailures = 0
    /\ notified = <<>>
    /\ shown = NoList
    /\ page = InitialPage
    /\ peer = NoPeer
    /\ last = Call("initState", <<>>, Undefined, TRUE, FALSE)

readTopCategory == getter("getTopCategory", <<>>, getTopCategory(transactions))

readBudgetStatus ==
    getter("getBudgetStatus", <<>>, getBudgetStatus(transactions, settings))

NextStats ==
    \/ readTopCategory
    \/ readBudgetStatus

SpecStats == InitStats /\ [][NextStats]_vars

\* state.js: getLast7DaysSpending.  An instant is counted in hours from
\* 1970-01-01T00:00Z, and the user's zone is offset hours ahead of UTC.
HoursPerDay == 24
DaysShown == 7

pad(ds, n) == IF Len(ds) >= n THEN ds ELSE [i \in 1..(n - Len(ds)) |-> "0"] \o ds

\* date.toISOString().split('T')[0] of the instant h: its date in UTC.
toISODate(h) ==
    LET z == (h \div HoursPerDay) + 719468
        era == z \div 146097
        doe == z - era * 146097
        yoe == (doe - (doe \div 1460) + (doe \div 36524) - (doe \div 146096)) \div 365
        doy == doe - (365 * yoe + (yoe \div 4) - (yoe \div 100))
        mp == (5 * doy + 2) \div 153
        d == doy - ((153 * mp + 2) \div 5) + 1
        m == IF mp < 10 THEN mp + 3 ELSE mp - 9
        y == yoe + era * 400 + (IF m <= 2 THEN 1 ELSE 0)
    IN  pad(digitsOf(y), 4) \o <<"-">> \o pad(digitsOf(m), 2) \o <<"-">>
        \o pad(digitsOf(d), 2)

\* today.setHours(0, 0, 0, 0): the instant of local midnight of the local
\* day that holds the instant h.
localMidnight(h, offset) ==
    ((h + offset) \div HoursPerDay) * HoursPerDay - offset

Weekdays == <<"Thu", "Fri", "Sat", "Sun", "Mon", "Tue", "Wed">>

\* One turn of the loop: the bucket of the day i days before today.
dayBucket(txns, today, offset, i) ==
    LET date == today - i * HoursPerDay
        dateStr == toISODate(date)
        OnDay(t) == t.date = dateStr
    IN  [date |-> dateStr,
         label |-> Weekdays[(((date + offset) \div HoursPerDay) % 7) + 1],
         amount |-> getTotalAmount(SelectSeq(txns, OnDay))]

RECURSIVE bucketsFrom(_, _, _, _)
bucketsFrom(txns, today, offset, i) ==
    IF i < 0 THEN <<>>
    ELSE <<dayBucket(txns, today, offset, i)>>
         \o bucketsFrom(txns, today, offset, i - 1)

getLast7DaysSpending(txns, h, offset) ==
    bucketsFrom(txns, localMidnight(h, offset), offset, DaysShown - 1)

\* The chart of the last seven days, read at midnight, noon and late
\* evening UTC of 2025-09-15, west of Greenwich, on it, and east of it, over
\* lists dated around that day.
D0914 == <<"2", "0", "2", "5", "-", "0", "9", "-", "1", "4">>
MaxWeekTxns == 2
WeekDates == {D0914, D0915, D0916}
WeekAmounts == {100, 200}
WeekHours == {dateValue(D0915) * HoursPerDay + k : k \in {0, 12, 23}}
UTCOffsets == {-5, 0, 2}

weekRecord(i, day, a) ==
    [id |-> generateId(0, i), description |-> <<"t", "e", "a">>, amount |-> a,
     category |-> Food, date |-> day, createdAt |-> toISOString(0),
     updatedAt |-> toISOString(0)]

RECURSIVE weekList(_, _)
weekList(f, n) ==
    IF n = 0 THEN <<>>
    ELSE Append(weekList(f, n - 1), weekRecord(n, f[n][1], f[n][2]))

WeekLists ==
    UNION {{weekList(f, n) : f \in [1..n -> WeekDates \X WeekAmounts]} :
              n \in 0..MaxWeekTxns}

InitWeek ==
    /\ \E l \in WeekLists :
           /\ transactions = l
           /\ localStorage = [transactions |-> Some(l),
                              settings |-> Some(DEFAULT_SETTINGS),
                              categories |-> Some(DEFAULT_CATEGORIES)]
    /\ categories = DEFAULT_CATEGORIES
    /\ settings = DEFAULT_SETTINGS
    /\ ui = InitialUI
    /\ subscribers = <<>>
    /\ now = MaxClock
    /\ initialised = TRUE
    /\ writeFailures = 0
    /\ notified = <<>>
    /\ shown = NoList
    /\ page = InitialPage
    /\ peer = NoPeer
    /\ last = Call("initState", <<>>, Undefined, TRUE, FALSE)

readLast7Days(h, offset) ==
    getter("getLast7DaysSpending", <<h, offset>>,
           getLast7DaysSpending(transactions, h, offset))

NextWeek == \E h \in WeekHours, offset \in UTCOffsets : readLast7Days(h, offset)

SpecWeek == InitWeek /\ [][NextWeek]_vars

\* state.js: convertCurrency.  A number is the exact fraction num/den, kept
\* in lowest terms; an amount is counted in cents and a rate in units of
\* 1/RateScale.
RECURSIVE gcd(_, _)
gcd(a, b) == IF b = 0 THEN a ELSE gcd(b, a % b)

Fraction(num, den) ==
    LET g == gcd(num, den)
    IN  IF g = 0 THEN [num |-> num, den |-> den]
        ELSE [num |-> num \div g, den |-> den \div g]

times(x, rate) == Fraction(x.num * rate, x.den * RateScale)
dividedBy(x, rate) == Fraction(x.num * RateScale, x.den * rate)

convertCurrency(s, amount, from, to) ==
    IF from = to THEN Fraction(amount, 1)
    ELSE LET rates == s.exchangeRates
             inUSD == IF from = "EUR" THEN times(Fraction(amount, 1), rates.EUR)
                      ELSE IF from = "RWF" THEN times(Fraction(amount, 1), rates.RWF)
                      ELSE Fraction(amount, 1)
         IN  IF to = "USD" THEN inUSD
             ELSE IF to = "EUR" THEN dividedBy(inUSD, rates.EUR)
             ELSE IF to = "RWF" THEN dividedBy(inUSD, rates.RWF)
             ELSE Fraction(amount, 1)

\* Conversions of 0, 1.00 and 2.50 between the three currencies of the
\* program and one it does not know, under the default rates, under a EUR
\* rate of 1, and under a changed RWF rate.
CurrencyCodes == {"USD", "EUR", "RWF", "GBP"}
ConvertedAmounts == {0, 100, 250}
RateTables ==
    {DEFAULT_SETTINGS.exchangeRates,
     [EUR |-> RateScale, RWF |-> DefaultRateRWF],
     [EUR |-> DefaultRateEUR, RWF |-> DefaultRateRWF + 2]}

InitConvert ==
    /\ \E rates \in RateTables :
           /\ settings = [DEFAULT_SETTINGS EXCEPT !.exchangeRates = rates]
           /\ localStorage = [transactions |-> Some(<<>>),
                              settings |-> Some(settings),
                              categories |-> Some(DEFAULT_CATEGORIES)]
    /\ transactions = <<>>
    /\ categories = DEFAULT_CATEGORIES
    /\ ui = InitialUI
    /\ subscribers = <<>>
    /\ now = MaxClock
    /\ initialised = TRUE
    /\ writeFailures = 0
    /\ notified = <<>>
    /\ shown = NoList
    /\ page = InitialPage
    /\ peer = NoPeer
    /\ last = Call("initState", <<>>, Undefined, TRUE, FALSE)

convert(amount, from, to) ==
    getter("convertCurrency", <<amount, from, to>>,
           convertCurrency(settings, amount, from, to))

NextConvert ==
    \E amount \in ConvertedAmounts, from \in CurrencyCodes, to \in CurrencyCodes :
        convert(amount, from, to)

SpecConvert == InitConvert /\ [][NextConvert]_vars

\* Reading the state and writing to what was read.
NextReaders ==
    \/ \E w \in BOOLEAN : initState(w)
    \/ \E d \in TxnInputs, r \in Rand, w \in BOOLEAN : addTransaction(d, r, w)
    \/ getTransactions
    \/ getFilteredTransactions
    \/ \E id \in Ids : readTransaction(id)
    \/ getCategories
    \/ getSettings
    \/ getUIState
    \/ readFullState
    \/ \E o \in {OwnCopy, RatesTable} \cup {TransactionAt(i) : i \in 1..MaxTxns} :
           \E x \in CallerValues : callerWrites(o, x)
    \/ Tick

SpecReaders == Init /\ [][NextReaders]_vars

----------------------------------------------------------------------------
(* The search pipeline over a loaded list *)

SearchRecords ==
    {[id |-> generateId(0, 0), description |-> <<"t", "e", "a">>, amount |-> 250,
      date |-> D0915, category |-> Food,
      createdAt |-> toISOString(0), updatedAt |-> toISOString(0)],
     [id |-> generateId(0, 1), description |-> <<"e", "a", "t">>, amount |-> 250,
      date |-> D0915, category |-> Food,
      createdAt |-> toISOString(0), updatedAt |-> toISOString(0)],
     [id |-> generateId(1, 0), description |-> <<"b", "u", "s">>, amount |-> 100,
      date |-> D0916, category |-> Transport,
      createdAt |-> toISOString(1), updatedAt |-> toISOString(1)]}

\* The stored lists: up to MaxTxns of the records, each at most once.
SearchLists ==
    {l \in UNION {[1..n -> SearchRecords] : n \in 0..MaxTxns} :
        \A i, j \in 1..Len(l) : i # j => l[i] # l[j]}

NestedQuantifierQuery == <<"(", "a", "+", ")", "+", "b">>

Queries == {<<>>, <<Space>>, <<"a">>, <<"E">>, <<"(">>, NestedQuantifierQuery}

SortKeys ==
    {field \o <<"-">> \o direction :
        field \in {DateField, DescriptionField, AmountField},
        direction \in {Asc, Desc}}

CategoryFilters == {<<>>, Food, Transport}

\* The state after initState has loaded a store that holds one of the lists.
InitSearch ==
    /\ \E l \in SearchLists :
           /\ transactions = l
           /\ localStorage = [transactions |-> Some(l),
                              settings |-> Some(DEFAULT_SETTINGS),
                              categories |-> Some(DEFAULT_CATEGORIES)]
    /\ categories = DEFAULT_CATEGORIES
    /\ settings = DEFAULT_SETTINGS
    /\ ui = InitialUI
    /\ subscribers = <<>>
    /\ now = MaxClock
    /\ initialised = TRUE
    /\ writeFailures = 0
    /\ notified = <<>>
    /\ shown = NoList
    /\ page = InitialPage
    /\ peer = NoPeer
    /\ last = Call("initState", <<>>, Undefined, TRUE, FALSE)

NextSearch ==
    \/ \E q \in Queries, ci \in BOOLEAN :
           setSearchQuery(q, ci) /\ UNCHANGED page
    \/ \E k \in SortKeys : setSortBy(k)
    \/ \E c \in CategoryFilters : setCategoryFilter(c)
    \/ getFilteredTransactions

SpecSearch == InitSearch /\ [][NextSearch]_vars

\* Setting the search pattern while a subscriber that throws listens.
NextQuery ==
    \/ \E q \in Queries, ci \in BOOLEAN :
           setSearchQuery(q, ci) /\ UNCHANGED page
    \/ \E c \in CategoryFilters : setCategoryFilter(c)
    \/ subscribe("faulty")
    \/ getFilteredTransactions

SpecQuery == InitSearch /\ [][NextQuery]_vars

\* The application after initState on an empty store, no list loaded.
InitIdle ==
    /\ transactions = <<>>
    /\ localStorage = [transactions |-> Some(<<>>),
                       settings |-> Some(DEFAULT_SETTINGS),
                       categories |-> Some(DEFAULT_CATEGORIES)]
    /\ categories = DEFAULT_CATEGORIES
    /\ settings = DEFAULT_SETTINGS
    /\ ui = InitialUI
    /\ subscribers = <<>>
    /\ now = MaxClock
    /\ initialised = TRUE
    /\ writeFailures = 0
    /\ notified = <<>>
    /\ shown = NoList
    /\ page = InitialPage
    /\ peer = NoPeer
    /\ last = Call("initState", <<>>, Undefined, TRUE, FALSE)

\* search.js: escapeHTML.  Assigning textContent and reading innerHTML
\* turns "&", "<" and ">" into entities and leaves every other character.
escapeChar(c) ==
    IF c = "&" THEN <<"&", "a", "m", "p", ";">>
    ELSE IF c = "<" THEN <<"&", "l", "t", ";">>
    ELSE IF c = ">" THEN <<"&", "g", "t", ";">>
    ELSE <<c>>

RECURSIVE escapeHTML(_)
escapeHTML(text) ==
    IF text = <<>> THEN <<>> ELSE escapeChar(Head(text)) \o escapeHTML(Tail(text))

OpenMark == <<"<", "m", "a", "r", "k", ">">>
CloseMark == <<"<", "/", "m", "a", "r", "k", ">">>

\* String.prototype.replace(regex, match => `<mark>${match}</mark>`): with
\* the g flag every match from the left is replaced, the search going on
\* at the end of a match, one further after an empty one; without it the
\* first match only.  from is where the search starts, copied the end of
\* the text already written.
RECURSIVE replaceFrom(_, _, _, _, _)
RECURSIVE replaceNext(_, _, _, _, _)
replaceFrom(atoms, flags, text, from, copied) ==
    IF from > Len(text) THEN SubSeq(text, copied + 1, Len(text))
    ELSE replaceNext(atoms, flags, text, copied, searchFrom(atoms, text, from, flags))
replaceNext(atoms, flags, text, copied, m) ==
    IF ~m.found THEN SubSeq(text, copied + 1, Len(text))
    ELSE SubSeq(text, copied + 1, m.index)
         \o OpenMark \o SubSeq(text, m.index + 1, m.end) \o CloseMark
         \o (IF "g" \in flags
             THEN replaceFrom(atoms, flags, text,
                              IF m.end = m.index THEN m.end + 1 ELSE m.end, m.end)
             ELSE SubSeq(text, m.end + 1, Len(text)))

\* highlight(text, regex): the text is escaped first, and the regex is then
\* applied to the escaped string.
highlight(text, regex) ==
    IF regex = Null \/ text = <<>> THEN escapeHTML(text)
    ELSE replaceFrom(parsePattern(regex[1].source, 1, <<>>).atoms, regex[1].flags,
                     escapeHTML(text), 0, 0)

\* search.js: getHighlightedSegments.  What the function holds between two
\* turns of its while loop: the segments pushed, lastIndex, and
\* globalRegex.lastIndex, where the next exec starts.
Scanning(segments, lastIndex, scanFrom, done) ==
    [segments |-> segments, lastIndex |-> lastIndex, scanFrom |-> scanFrom,
     done |-> done]

Segment(text, highlighted) == [text |-> text, highlighted |-> highlighted]

InScan == last.op = "getHighlightedSegments" /\ ~last.ret.done

\* The call, up to the first test of the loop condition.  The function
\* runs to its end before another call is made.
getHighlightedSegments(text, regex) ==
    /\ ~InScan
    /\ getter("getHighlightedSegments", <<text, regex>>,
              IF text = <<>> THEN Scanning(<<>>, 0, 0, TRUE)
              ELSE IF regex = Null
              THEN Scanning(<<Segment(text, FALSE)>>, 0, 0, TRUE)
              ELSE Scanning(<<>>, 0, 0, FALSE))

\* globalRegex.exec(text): null once lastIndex is past the end of the text.
scanExec(atoms, flags, text, from) ==
    IF from > Len(text) THEN [found |-> FALSE, index |-> 0, end |-> 0]
    ELSE searchFrom(atoms, text, from, flags)

\* scanned without the step over an empty match.
scanned_NoStepOver(text, scan, m) ==
    IF m.found
    THEN Scanning(scan.segments
                      \o (IF m.index > scan.lastIndex
                          THEN <<Segment(SubSeq(text, scan.lastIndex + 1, m.index),
                                         FALSE)>>
                          ELSE <<>>)
                      \o <<Segment(SubSeq(text, m.index + 1, m.end), TRUE)>>,
                  m.end, m.end, FALSE)
    ELSE Scanning(scan.segments
                      \o (IF scan.lastIndex < Len(text)
                          THEN <<Segment(SubSeq(text, scan.lastIndex + 1, Len(text)),
                                         FALSE)>>
                          ELSE <<>>),
                  scan.lastIndex, 0, TRUE)

\* One turn of the loop for the match m, or the end of the loop and the
\* rest of the text when exec returned null.
scanned(text, scan, m) ==
    IF m.found
    THEN Scanning(scan.segments
                      \o (IF m.index > scan.lastIndex
                          THEN <<Segment(SubSeq(text, scan.lastIndex + 1, m.index),
                                         FALSE)>>
                          ELSE <<>>)
                      \o <<Segment(SubSeq(text, m.index + 1, m.end), TRUE)>>,
                  m.end,
                  IF m.end = m.index THEN m.end + 1 ELSE m.end,
                  FALSE)
    ELSE Scanning(scan.segments
                      \o (IF scan.lastIndex < Len(text)
                          THEN <<Segment(SubSeq(text, scan.lastIndex + 1, Len(text)),
                                         FALSE)>>
                          ELSE <<>>),
                  scan.lastIndex, 0, TRUE)

scanStep ==
    /\ InScan
    /\ LET text == last.arg[1]
           regex == last.arg[2][1]
       IN  last' = [last EXCEPT
                        !.ret = scanned(text, last.ret,
                                        scanExec(parsePattern(regex.source, 1, <<>>).atoms,
                                                 regex.flags \cup {"g"}, text,
                                                 last.ret.scanFrom))]
    /\ notified' = <<>>
    /\ shown' = NoList /\ UNCHANGED <<page, peer>>
    /\ UNCHANGED <<localStorage, transactions, categories, settings, ui,
                   subscribers, now, initialised, writeFailures>>

readHighlight(text, regex) ==
    /\ ~InScan
    /\ getter("highlight", <<text, regex>>, highlight(text, regex))

\* Texts of up to MaxTextLen characters, markup characters among them, and
\* the matchers that compileRegex gives for the patterns: a letter of the
\* entities, the ampersand, an item that matches the empty string.
MaxTextLen == 2
TextChars == {"a", "<", "&"}
Texts == UNION {[1..n -> TextChars] : n \in 0..MaxTextLen}
Patterns == {<<"a">>, <<"&">>, <<"a", "*">>, <<"a", "+">>, <<"l", "t">>}
Matchers ==
    {Null} \cup {compileRegex(q, {"g", "i"}).regex : q \in Patterns}

NextHighlight ==
    \/ \E text \in Texts, regex \in Matchers : readHighlight(text, regex)
    \/ \E text \in Texts, regex \in Matchers : getHighlightedSegments(text, regex)
    \/ scanStep

\* The loop runs on: no event is handled before the function has returned.
SpecHighlight == InitIdle /\ [][NextHighlight]_vars /\ WF_vars(scanStep)

\* The descriptions and amounts handed to the validators: every string of
\* up to MaxFieldLen characters of a word in two cases, a hyphen and a
\* space, and of the characters of an amount, with the amounts at the
\* upper limit.
MaxFieldLen == 5
DescriptionChars == {"a", "A", "-", Space}
Descriptions == UNION {[1..n -> DescriptionChars] : n \in 0..MaxFieldLen}
AmountChars == {"0", "1", ".", "-", Space}
LimitAmounts ==
    {<<"1", "2", ".", "5", "0">>, <<"1", "2", ".", "9", "9", "9">>, <<"-", "5">>,
     <<".", "5", "0">>, <<Space, "1", "2", ".", "5", Space>>,
     <<"9", "9", "9", "9", "9", "9", ".", "9", "9">>,
     <<"9", "9", "9", "9", "9", "9", ".", "9", "9", "9">>,
     <<"1", "0", "0", "0", "0", "0", "0">>,
     <<"1", "0", "0", "0", "0", "0", "0", ".", "0", "0">>,
     <<"9", "9", "9", "9", "9", "9">>}
Amounts == UNION {[1..n -> AmountChars] : n \in 0..(MaxFieldLen - 1)} \cup LimitAmounts

NextValidate ==
    \/ \E s \in Descriptions :
           getter("validateDescription", <<s>>, validateDescription(s))
    \/ \E s \in Amounts : getter("validateAmount", <<s>>, validateAmount(s))

SpecValidate == InitIdle /\ [][NextValidate]_vars

\* The forms submitted: a description that passes or fails, and no custom
\* category, a new one, one that fails; the files imported: one that
\* passes and one that fails.
FormDescriptions == {Tea, <<>>}
FormAmounts == {<<"2", ".", "5", "0">>}
FormCustomCategories == {<<>>, Tea, <<"T", "1">>}
FormFiles == {<<ExportedItem>>, <<NegativeItem>>}
Forms ==
    [description : FormDescriptions, amount : FormAmounts, date : {D0915},
     category : {Food}, customCategory : FormCustomCategories]

NextForm ==
    \/ \E form \in Forms, r \in Rand, w \in BOOLEAN : handleFormSubmit(form, r, w)
    \/ \E i \in 1..Len(transactions) : editClick(transactions[i].id)
    \/ cancelEdit
    \/ \E i \in 1..Len(transactions), w \in BOOLEAN :
           confirmDelete(transactions[i].id, w)
    \/ \E f \in FormFiles :
           \E rs \in [1..Len(f) -> Rand], w \in BOOLEAN : importFile(f, rs, w)
    \/ \E w \in BOOLEAN : clearAllTransactions(w)

SpecForm == InitIdle /\ [][NextForm]_vars

\* Two tabs with the application on one store.  The variables of the state
\* are those of the tab whose calls run; peer holds those of the other.
TabState(t, c, s, u) ==
    [transactions |-> t, categories |-> c, settings |-> s, ui |-> u]

\* The turn passes to the other tab.
otherTab ==
    /\ peer # NoPeer
    /\ transactions' = peer.transactions
    /\ categories' = peer.categories
    /\ settings' = peer.settings
    /\ ui' = peer.ui
    /\ peer' = TabState(transactions, categories, settings, ui)
    /\ UNCHANGED <<localStorage, subscribers, now, initialised, writeFailures,
                   notified, shown, page, last>>

\* Both tabs have run initState on the store of a first visit.
InitTabs ==
    /\ transactions = <<>>
    /\ localStorage = [transactions |-> Some(<<>>),
                       settings |-> Some(DEFAULT_SETTINGS),
                       categories |-> Some(DEFAULT_CATEGORIES)]
    /\ categories = DEFAULT_CATEGORIES
    /\ settings = DEFAULT_SETTINGS
    /\ ui = InitialUI
    /\ subscribers = <<>>
    /\ now = MaxClock
    /\ initialised = TRUE
    /\ writeFailures = 0
    /\ notified = <<>>
    /\ shown = NoList
    /\ page = InitialPage
    /\ peer = TabState(<<>>, DEFAULT_CATEGORIES, DEFAULT_SETTINGS, InitialUI)
    /\ last = Call("initState", <<>>, Undefined, TRUE, FALSE)

\* Whole mutator calls of either tab, the store accepting every write.
NextTabs ==
    \/ \E d \in TxnInputs, r \in Rand : addTransaction(d, r, TRUE)
    \/ \E id \in Ids, u \in LedgerUpdates : updateTransaction(id, u, TRUE)
    \/ \E id \in Ids : deleteTransaction(id, TRUE)
    \/ addCategory(Tea, TRUE)
    \/ otherTab

SpecTabs == InitTabs /\ [][NextTabs]_vars

\* ui.js: debounce(func, wait), and the debounced search that app.js
\* attaches to the search box and the case box with a wait of Wait ms.
Wait == 300

\* Time is counted in steps of TimeStep ms, StepsPerWait of them to the
\* wait, up to IdleCap after an event.
StepsPerWait == 3
TimeStep == Wait \div StepsPerWait
IdleCap == Wait + TimeStep

Latest(timers) == CHOOSE r \in timers : \A q \in timers : q <= r

\* clearTimeout(timeout): timeout is the handle of the timeout set last.
clearTimeout(timers) == IF timers = {} THEN {} ELSE timers \ {Latest(timers)}

\* executedFunction without its clearTimeout.
executedFunction_KeepsPending(timers) == timers \cup {Wait}

\* executedFunction: the pending timeout is cleared and a new one is set.
executedFunction(timers) == clearTimeout(timers) \cup {Wait}

\* An event of the search box or the case box: the box takes its new
\* content and the listener, the debounced search, runs.
pageEvent(changed) ==
    /\ initialised
    /\ page' = [changed EXCEPT !.timers = executedFunction(page.timers),
                               !.idle = Some(0),
                               !.calls = 0]
    /\ UNCHANGED <<localStorage, transactions, categories, settings, ui,
                   subscribers, now, initialised, writeFailures, notified, shown,
                   peer, last>>

searchInput(value) == pageEvent([page EXCEPT !.value = value])

caseInsensitiveChange == pageEvent([page EXCEPT !.checked = ~page.checked])

\* TimeStep ms pass: no timeout is due, since one that is due runs first.
elapse ==
    /\ page.idle # Null
    /\ page.idle[1] < IdleCap
    /\ \A r \in page.timers : r >= TimeStep
    /\ page' = [page EXCEPT !.timers = {r - TimeStep : r \in page.timers},
                            !.idle = Some(page.idle[1] + TimeStep)]
    /\ UNCHANGED <<localStorage, transactions, categories, settings, ui,
                   subscribers, now, initialised, writeFailures, notified, shown,
                   peer, last>>

\* A timeout is due: later() clears the timeout and runs the search with
\* what the boxes hold now.  The rendering that follows reads the state.
later ==
    /\ 0 \in page.timers
    /\ page' = [page EXCEPT !.timers = clearTimeout(page.timers \ {0}),
                            !.calls = page.calls + 1]
    /\ setSearchQuery(page.value, page.checked)

SearchValues == {<<>>, <<"a">>, <<"(">>}

NextDebounce ==
    \/ \E value \in SearchValues : searchInput(value)
    \/ caseInsensitiveChange
    \/ elapse
    \/ later

\* Time passes, and a timeout that is due runs.
SpecDebounce ==
    InitSearch /\ [][NextDebounce]_vars /\ WF_vars(elapse) /\ WF_vars(later)

----------------------------------------------------------------------------
(* Vocabulary of the properties *)

Range(f) == {f[i] : i \in DOMAIN f}

TransactionMutators ==
    {"addTransaction", "updateTransaction", "deleteTransaction",
     "importTransactions", "clearAllTransactions"}

DataMutators ==
    TransactionMutators \cup {"addCategory", "removeCategory", "updateSettings"}

UISetters ==
    {"setCurrentSection", "setSearchQuery", "setSortBy", "setCategoryFilter",
     "setEditingId", "setLoading"}

\* The call returned, and what it returned is not its failure value.
Succeeded(c) ==
    /\ ~c.threw
    /\ \/ c.op \in {"addTransaction", "updateTransaction"} /\ c.ret # Null
       \/ /\ c.op \in {"deleteTransaction", "importTransactions",
                       "clearAllTransactions", "addCategory", "removeCategory"}
          /\ c.ret = TRUE
       \/ c.op \in {"updateSettings", "initState"} \cup UISetters

\* The call returned its failure value: null or false.
ReportedFailure(c) ==
    /\ ~c.threw
    /\ \/ c.op \in {"addTransaction", "updateTransaction"} /\ c.ret = Null
       \/ /\ c.op \in {"deleteTransaction", "importTransactions",
                       "clearAllTransactions", "addCategory", "removeCategory"}
          /\ c.ret = FALSE

\* What the adapter loads from a store.
Loaded(ls) ==
    [transactions |-> loadTransactions(ls),
     categories |-> loadCategories(ls, TRUE).ret,
     settings |-> loadSettings(ls, TRUE).ret]

Mirror == [transactions |-> transactions, categories |-> categories,
           settings |-> settings]

\* A step of the specification that is a call of the container: the clock
\* stands still, and the state or the record of the last call changes.
CallStep ==
    /\ now' = now
    /\ \/ last'.op # last.op
       \/ last'.arg # last.arg
       \/ last'.ret # last.ret
       \/ last'.w # last.w
       \/ <<localStorage, Mirror, ui, subscribers, notified>>'
              # <<localStorage, Mirror, ui, subscribers, notified>>

----------------------------------------------------------------------------
(* C1: after initState and after every successful data mutator, the        *)
(* in-memory transactions, categories and settings equal what the adapter  *)
(* loads from the store.                                                   *)
C1_MirrorEqualsStore ==
    (last.op \in DataMutators \cup {"initState"} /\ Succeeded(last))
        => Mirror = Loaded(localStorage)

(* C2: a data mutator during which the store refuses to write leaves the   *)
(* mirror as it was and returns its failure value.                         *)
C2_FailedWriteLeavesMirror ==
    [][(writeFailures' # writeFailures /\ last'.op \in DataMutators)
           => (Mirror' = Mirror /\ ReportedFailure(last'))]_vars

(* C3: a successful mutation has called every registered subscriber, each  *)
(* with a snapshot equal to the state after the mutation.                  *)
C3_AllSubscribersNotified ==
    (last.op \in DataMutators \cup UISetters /\ Succeeded(last))
        => /\ [i \in 1..Len(notified) |-> notified[i].cb] = subscribers
           /\ \A i \in 1..Len(notified) :
                  notified[i].state = getFullState(transactions, categories,
                                                   settings, ui)

(* C4: a subscriber that throws keeps no other subscriber of the round     *)
(* from being called, and changes neither the mutator's result nor the     *)
(* mutated state.                                                          *)
C4_ThrowIsIsolated ==
    (\E i \in 1..Len(notified) : notified[i].threw)
        => /\ [i \in 1..Len(notified) |-> notified[i].cb] = subscribers
           /\ Succeeded(last)
           /\ \A i \in 1..Len(notified) :
                  notified[i].state = getFullState(transactions, categories,
                                                   settings, ui)

\* A data mutator has called a throwing subscriber and then another one.
C4_Witness ==
    /\ last.op \in DataMutators
    /\ Len(notified) >= 2
    /\ notified[1].threw
    /\ ~notified[2].threw

\* The call's argument names nothing the mutator can act on.
CannotApply(c) ==
    \/ /\ c.op \in {"updateTransaction", "deleteTransaction"}
       /\ \A i \in 1..Len(transactions) : transactions[i].id # c.arg[1]
    \/ /\ c.op = "addCategory"
       /\ \E i \in 1..Len(categories) :
              toLowerCase(categories[i]) = toLowerCase(c.arg[1])
    \/ /\ c.op = "removeCategory"
       /\ c.arg[1] \notin Range(categories)

(* C5: a mutator call that cannot apply returns its failure value and      *)
(* leaves the mirror and the contents of the store unchanged.              *)
C5_InapplicableCallChangesNothing ==
    [][(CallStep /\ CannotApply(last'))
           => /\ ReportedFailure(last')
              /\ Mirror' = Mirror
              /\ Loaded(localStorage') = Loaded(localStorage)]_vars

(* C6: the regex kept for filtering is none, or a pattern that is          *)
(* syntactically valid and that compileRegex's timing probe accepts.       *)
C6_ActiveRegexIsSafe ==
    ui.searchRegex # Null
        => compileRegex(ui.searchRegex[1].source, ui.searchRegex[1].flags).regex # Null

\* The regex finds a match somewhere in the text.
FindsMatch(regex, text) ==
    searchFrom(parsePattern(regex.source, 1, <<>>).atoms, text, 0, regex.flags).found

\* The record passes the category filter and the search of the UI state.
PassesFilters(t) ==
    /\ ui.categoryFilter # <<>> => t.category = ui.categoryFilter
    /\ ui.searchRegex # Null =>
           \E text \in {t.description, t.category, amountToString(t.amount), t.date} :
               FindsMatch(ui.searchRegex[1], text)

Filtered == last.op = "getFilteredTransactions"

(* C7: getFilteredTransactions keeps exactly the records of the list that  *)
(* have the category of the filter, when one is set, and on one of whose   *)
(* description, category, amount string and date the regex finds a match,  *)
(* when one is active.                                                     *)
C7_ExactlyTheMatchingRecords ==
    Filtered =>
        Range(shown.kept) = {i \in 1..Len(transactions) : PassesFilters(transactions[i])}

(* C8: two calls of getFilteredTransactions in a row, with nothing changed *)
(* in between, return the same list.                                       *)
C8_FilteringIsIdempotent ==
    [][(Filtered /\ last'.op = "getFilteredTransactions")
           => last'.ret = last.ret]_vars

SortField == split(ui.sortBy, "-")[1]
SortDirection == split(ui.sortBy, "-")[2]

\* The date as year, month and day.
YearMonthDay(s) ==
    <<numberOf(SubSeq(s, 1, 4)), numberOf(SubSeq(s, 6, 7)), numberOf(SubSeq(s, 9, 10))>>

\* a's sort key is before b's: -1, the same: 0, after: 1.
KeyOrder(a, b) ==
    IF SortField = DateField THEN lexCompare(YearMonthDay(a.date), YearMonthDay(b.date))
    ELSE IF SortField = DescriptionField THEN localeCompare(a.description, b.description)
    ELSE IF a.amount < b.amount THEN -1
    ELSE IF a.amount > b.amount THEN 1
    ELSE 0

(* C9: the list getFilteredTransactions returns is a permutation of the    *)
(* filtered records, ordered by the field of the sort key in its           *)
(* direction; records with equal keys keep the order of the stored list,   *)
(* ascending and descending alike.                                         *)
C9_StableSortedPermutation ==
    Filtered =>
        /\ Len(shown.result) = Len(shown.kept)
        /\ Range(shown.result) = Range(shown.kept)
        /\ \A i, j \in 1..Len(shown.result) :
               i < j =>
                   LET order == KeyOrder(transactions[shown.result[i]],
                                         transactions[shown.result[j]])
                   IN  /\ SortDirection = Asc => order <= 0
                       /\ SortDirection = Desc => order >= 0
                       /\ order = 0 => shown.result[i] < shown.result[j]

\* A descending sort has returned two records with equal keys.
C9_Witness ==
    /\ Filtered
    /\ SortDirection = Desc
    /\ \E i, j \in 1..Len(shown.result) :
           /\ i < j
           /\ KeyOrder(transactions[shown.result[i]], transactions[shown.result[j]]) = 0

(* C10: no two transactions of the list have the same id.                  *)
C10_IdsUnique ==
    \A i, j \in 1..Len(transactions) :
        i # j => transactions[i].id # transactions[j].id

\* The step is a call of addTransaction that returned a record.
AddedStep == CallStep /\ last'.op = "addTransaction" /\ Succeeded(last')

(* C11: a successful addTransaction(t) appends one record at the end of    *)
(* the list and leaves the earlier records as they were; the record read   *)
(* back by the returned id has t's description, amount, category and date, *)
(* the id and the timestamps the container gave it.                        *)
C11_AddAppendsAndReadsBack ==
    [][AddedStep =>
          /\ Len(transactions') = Len(transactions) + 1
          /\ SubSeq(transactions', 1, Len(transactions)) = transactions
          /\ LET t == last'.arg[1]
                 read == getTransaction(transactions', last'.ret[1].id)
             IN  /\ read # Null
                 /\ read[1] = Spread(Spread([id |-> last'.ret[1].id], t),
                                     [createdAt |-> toISOString(now),
                                      updatedAt |-> toISOString(now)])]_vars

\* The step is a call of updateTransaction that returned a record.
UpdatedStep == CallStep /\ last'.op = "updateTransaction" /\ Succeeded(last')

(* C12: a successful updateTransaction(id, updates) changes the record     *)
(* with that id only: it stays where it is, keeps its id, its createdAt    *)
(* and the fields not supplied, takes the supplied values and a new        *)
(* updatedAt; the length of the list and the other records do not change.  *)
C12_UpdateChangesOneRecord ==
    [][UpdatedStep =>
          \E i \in 1..Len(transactions) :
              /\ transactions[i].id = last'.arg[1]
              /\ \A j \in 1..(i - 1) : transactions[j].id # last'.arg[1]
              /\ transactions' =
                     [transactions EXCEPT
                          ![i] = Spread(Spread(transactions[i], last'.arg[2]),
                                        [updatedAt |-> toISOString(now)])]]_vars

\* Every item of the file, normalised, in the order of the file.
NormalizedBatch(data, t, rs) ==
    [i \in 1..Len(data) |-> normalizeItem(data[i], t, rs[i])]

FailsValidation(data) ==
    data = <<>> \/ \E i \in 1..Len(data) : itemFails(data[i])

RejectedStep == CallStep /\ last'.op = "importFile"
ImportedStep == CallStep /\ last'.op = "importTransactions"

(* C13: import is all-or-nothing.  A file is rejected only when it is      *)
(* empty or one of its items fails validation; validateImportData then     *)
(* gives no data and the list stays unchanged in the mirror and in the     *)
(* store.  A batch is imported only when it is every item, normalised and  *)
(* in file order, of a file whose items are all valid, and after           *)
(* importTransactions the list is exactly that batch, in the mirror and in *)
(* the store, with no earlier record left.                                 *)
C13_ImportAllOrNothing ==
    [][/\ RejectedStep =>
              /\ FailsValidation(last'.arg[1])
              /\ last'.ret.data = Null
              /\ transactions' = transactions
              /\ localStorage' = localStorage
       /\ ImportedStep =>
              /\ \E f \in ImportFiles \cup RejectedFiles :
                     /\ ~FailsValidation(f)
                     /\ \E rs \in [1..Len(f) -> Rand] :
                            last'.arg[1] = NormalizedBatch(f, now, rs)
              /\ transactions' = last'.arg[1]
              /\ loadTransactions(localStorage') = last'.arg[1]]_vars

NoCaseDuplicates(list) ==
    \A i, j \in 1..Len(list) :
        toLowerCase(list[i]) = toLowerCase(list[j]) => i = j

CategoryStep == CallStep /\ last'.op \in {"addCategory", "removeCategory"}

(* C14: after every addCategory and removeCategory call, starting from the *)
(* default categories, no two entries of the category list are equal       *)
(* ignoring case, in the mirror and in the store, and the entries stand in *)
(* the order in which they were added: an accepted name goes to the end, a *)
(* removal takes entries out and keeps the others in order, and a refused  *)
(* call leaves the list as it was.                                         *)
C14_CategoriesDistinctInOrder ==
    [][CategoryStep =>
          /\ NoCaseDuplicates(categories')
          /\ NoCaseDuplicates(loadCategories(localStorage', TRUE).ret)
          /\ LET name == last'.arg[1]
                 Differs(c) == c # name
             IN  categories' =
                     IF ~last'.ret THEN categories
                     ELSE IF last'.op = "addCategory" THEN Append(categories, name)
                     ELSE SelectSeq(categories, Differs)]_vars

\* A name was accepted after a refused write had left the store behind the
\* mirror, and the list holds it after the default ones, Food among them.
C14_Witness ==
    /\ last.op = "addCategory" /\ last.ret
    /\ writeFailures > 0
    /\ Len(categories) > Len(DEFAULT_CATEGORIES)
    /\ categories[Len(categories)] = last.arg[1]
    /\ \E i \in 1..Len(categories) : categories[i] = Food

SettingsKeys == {"baseCurrency", "displayCurrency", "exchangeRates", "budgetCap"}

SettingsStep == CallStep /\ last'.op = "updateSettings"

(* C15: updateSettings(updates) changes only the top-level keys present in *)
(* updates: each of them takes the supplied value, every other key keeps   *)
(* the value it had, and the four keys baseCurrency, displayCurrency,      *)
(* exchangeRates and budgetCap are all still present.                      *)
C15_UpdateChangesSuppliedKeys ==
    [][SettingsStep =>
          /\ DOMAIN settings' = SettingsKeys
          /\ \A k \in SettingsKeys :
                 settings'[k] = IF k \in DOMAIN last'.arg[1] THEN last'.arg[1][k]
                                ELSE settings[k]]_vars

WriteStep == CallStep /\ last'.op = "callerWrites"

(* C16: readers receive only copies.  When a caller writes to a value that *)
(* getTransactions, getFilteredTransactions, getTransaction, getCategories,*)
(* getSettings, getUIState or a snapshot gave it, a transaction record and *)
(* the exchangeRates table inside it included, nothing that a later read   *)
(* of the state returns has changed.                                       *)
C16_ReadersGetCopies ==
    [][WriteStep =>
          /\ transactions' = transactions
          /\ categories' = categories
          /\ settings' = settings
          /\ ui' = ui]_vars

\* The sum of the amounts of the records of category c, or of all records.
SumOf(txns, c) ==
    LET RECURSIVE upTo(_)
        upTo(n) == IF n = 0 THEN 0
                   ELSE upTo(n - 1) + (IF txns[n].category = c THEN txns[n].amount ELSE 0)
    IN  upTo(Len(txns))

SumAll(txns) ==
    LET RECURSIVE upTo(_)
        upTo(n) == IF n = 0 THEN 0 ELSE upTo(n - 1) + txns[n].amount
    IN  upTo(Len(txns))

FirstAt(txns, c) == CHOOSE i \in 1..Len(txns) :
                        /\ txns[i].category = c
                        /\ \A j \in 1..(i - 1) : txns[j].category # c

(* C17: getTopCategory returns null exactly when the list is empty; for a  *)
(* non-empty list it returns a category that occurs in the list, whose     *)
(* summed amount is the highest of all categories and is the amount        *)
(* returned, and among the categories with the highest sum the one that    *)
(* comes first in list order.                                              *)
C17_TopCategory ==
    last.op = "getTopCategory" =>
        /\ last.ret = Null <=> transactions = <<>>
        /\ transactions # <<>> =>
               LET top == last.ret[1]
               IN  /\ top.category # Null
                   /\ \E i \in 1..Len(transactions) :
                          transactions[i].category = top.category[1]
                   /\ top.amount = SumOf(transactions, top.category[1])
                   /\ \A i \in 1..Len(transactions) :
                          LET c == transactions[i].category
                          IN  /\ SumOf(transactions, c) <= top.amount
                              /\ SumOf(transactions, c) = top.amount =>
                                     FirstAt(transactions, top.category[1])
                                         <= FirstAt(transactions, c)

(* C18: getBudgetStatus is no-cap exactly when the cap is 0; otherwise     *)
(* remaining is cap - total, percentage is min(total / cap * 100, 100),    *)
(* and the status is over when total >= cap, warning when the percentage   *)
(* is at least 80 and below 100, and under otherwise; spent is the sum of  *)
(* the amounts of all records of the list.                                 *)
C18_BudgetStatus ==
    last.op = "getBudgetStatus" =>
        LET b == last.ret
            cap == settings.budgetCap
            total == SumAll(transactions)
        IN  /\ b.spent = total
            /\ b.status = "no-cap" <=> cap = 0
            /\ cap # 0 =>
                   /\ b.remaining = Some(cap - total)
                   /\ IF total >= cap
                      THEN b.percentage.num = FullPercent * b.percentage.den
                      ELSE b.percentage.num * cap
                               = total * FullPercent * b.percentage.den
                   /\ b.status =
                          IF total >= cap THEN "over"
                          ELSE IF FullPercent * total >= WarningPercent * cap
                          THEN "warning"
                          ELSE "under"

\* The status was computed for a list whose total is exactly the cap, which
\* two categories share.
C18_Witness ==
    /\ last.op = "getBudgetStatus"
    /\ settings.budgetCap = 500
    /\ SumAll(transactions) = 500
    /\ last.ret.status = "over"
    /\ \E i, j \in 1..Len(transactions) :
           transactions[i].category # transactions[j].category

SumOn(txns, day) ==
    LET RECURSIVE upTo(_)
        upTo(n) == IF n = 0 THEN 0
                   ELSE upTo(n - 1) + (IF txns[n].date = day THEN txns[n].amount ELSE 0)
    IN  upTo(Len(txns))

(* C19: getLast7DaysSpending returns exactly 7 buckets for 7 consecutive   *)
(* calendar days in ascending order, the last of them today's date on the  *)
(* user's local calendar, and the amount of each bucket is the sum of the  *)
(* amounts of the transactions dated with the bucket's date, at every      *)
(* local time of day and for every UTC offset.                             *)
C19_LastSevenLocalDays ==
    last.op = "getLast7DaysSpending" =>
        LET days == last.ret
            localToday == (last.arg[1] + last.arg[2]) \div HoursPerDay
        IN  /\ Len(days) = DaysShown
            /\ \A k \in 1..DaysShown :
                   /\ dateValue(days[k].date) = localToday - (DaysShown - k)
                   /\ days[k].amount = SumOn(transactions, days[k].date)

KnownCurrencies == {"USD", "EUR", "RWF"}

(* C20: convertCurrency(amount, from, to) returns amount unchanged whenever *)
(* from equals to, and whenever from or to is a code outside USD, EUR and  *)
(* RWF, under every rate table.                                            *)
C20_UnknownCodeKeepsAmount ==
    last.op = "convertCurrency" =>
        LET amount == last.arg[1]
            from == last.arg[2]
            to == last.arg[3]
        IN  (from = to \/ from \notin KnownCurrencies \/ to \notin KnownCurrencies)
                => last.ret.num = amount * last.ret.den

QueryStep == CallStep /\ last'.op = "setSearchQuery"

SyntaxError(pattern) == ~parsePattern(pattern, 1, <<>>).ok

(* C21: setting a search pattern never throws.  An empty or white-space    *)
(* pattern is accepted and leaves no matcher, so that the search filter    *)
(* lets every record pass; a pattern with a syntax error, such as "(", is  *)
(* rejected with a reason and leaves no matcher, not the one that was      *)
(* active before; compileRegex gives no regex in both cases, and an error  *)
(* only in the second.                                                     *)
C21_SettingPatternIsSafe ==
    [][/\ QueryStep =>
              LET query == last'.arg[1]
                  result == compileRegex(query, {"g", "i"})
              IN  /\ ~last'.threw
                  /\ trim(query) = <<>> =>
                         /\ last'.ret = [valid |-> TRUE, error |-> Null]
                         /\ ui'.searchRegex = Null
                         /\ result = [regex |-> Null, error |-> Null]
                  /\ (trim(query) # <<>> /\ SyntaxError(query)) =>
                         /\ ~last'.ret.valid
                         /\ last'.ret.error # Null
                         /\ ui'.searchRegex = Null
                         /\ result.regex = Null /\ result.error # Null
       /\ (CallStep /\ last'.op = "getFilteredTransactions"
              /\ ui.searchRegex = Null) =>
              Range(shown'.kept) =
                  {i \in 1..Len(transactions) :
                      ui.categoryFilter # <<>>
                          => transactions[i].category = ui.categoryFilter}]_vars

\* The pattern "(" has been rejected while a throwing subscriber was
\* notified, and no matcher is active.
C21_Witness ==
    /\ last.op = "setSearchQuery"
    /\ last.arg[1] = <<"(">>
    /\ ~last.ret.valid
    /\ ui.searchRegex = Null
    /\ Len(notified) = 1 /\ notified[1].threw
    /\ transactions # <<>>


Entities == {escapeChar("&"), escapeChar("<"), escapeChar(">")}

startsWith(out, i, token) ==
    /\ i + Len(token) - 1 <= Len(out)
    /\ SubSeq(out, i, i + Len(token) - 1) = token

\* From position i on, out is made of whole emphasis markers, whole
\* entities and characters other than "<", ">" and "&".
RECURSIVE safeMarkup(_, _)
safeMarkup(out, i) ==
    IF i > Len(out) THEN TRUE
    ELSE IF out[i] \notin {"<", ">", "&"} THEN safeMarkup(out, i + 1)
    ELSE \E token \in Entities \cup {OpenMark, CloseMark} :
             /\ startsWith(out, i, token)
             /\ safeMarkup(out, i + Len(token))

(* C22: for every text and every matcher the markup that highlight returns *)
(* has no raw "<", ">" or "&" but those of the inserted emphasis markers:  *)
(* it is made of whole markers, whole entities and plain characters.       *)
C22_HighlightEscapesText ==
    last.op = "highlight" => safeMarkup(last.ret, 1)


ScanDone == last.op = "getHighlightedSegments" /\ last.ret.done

RECURSIVE joined(_)
joined(segments) ==
    IF segments = <<>> THEN <<>> ELSE Head(segments).text \o joined(Tail(segments))

\* The texts of the non-overlapping matches of the matcher in text, from
\* the left, each search going on where the match before it ended and one
\* further after an empty match.
RECURSIVE matchesFrom(_, _, _, _)
RECURSIVE matchesNext(_, _, _, _)
matchesFrom(atoms, flags, text, from) ==
    IF from > Len(text) THEN <<>>
    ELSE matchesNext(atoms, flags, text, searchFrom(atoms, text, from, flags))
matchesNext(atoms, flags, text, m) ==
    IF ~m.found THEN <<>>
    ELSE <<SubSeq(text, m.index + 1, m.end)>>
         \o matchesFrom(atoms, flags, text,
                        IF m.end = m.index THEN m.end + 1 ELSE m.end)

matchesOf(text, regex) ==
    IF regex = Null THEN <<>>
    ELSE matchesFrom(parsePattern(regex[1].source, 1, <<>>).atoms,
                     regex[1].flags \cup {"g"}, text, 0)

flagged(segments) ==
    LET RECURSIVE pick(_)
        pick(rest) ==
            IF rest = <<>> THEN <<>>
            ELSE (IF Head(rest).highlighted THEN <<Head(rest).text>> ELSE <<>>)
                 \o pick(Tail(rest))
    IN  pick(segments)

Covers(segments, text) == joined(segments) = text

MaximalRuns(segments) ==
    /\ \A k \in 1..Len(segments) : segments[k].text # <<>>
    /\ \A k \in 1..(Len(segments) - 1) :
           segments[k].highlighted # segments[k + 1].highlighted

(* C23: for every non-empty text and every matcher the segments returned   *)
(* by getHighlightedSegments joined in order give the text, the segments   *)
(* flagged as matches are the non-overlapping matches from the left, and   *)
(* each segment is a maximal run, matched throughout or unmatched          *)
(* throughout: it is not empty and its neighbours carry the other flag.    *)
C23_SegmentsCoverInMaximalRuns ==
    (ScanDone /\ last.arg[1] # <<>>) =>
        /\ Covers(last.ret.segments, last.arg[1])
        /\ flagged(last.ret.segments) = matchesOf(last.arg[1], last.arg[2])
        /\ MaximalRuns(last.ret.segments)


\* A turn of the loop of getHighlightedSegments that found a match.
LoopTurn ==
    /\ InScan
    /\ last'.op = "getHighlightedSegments"
    /\ last'.arg = last.arg
    /\ ~last'.ret.done

EmptyMatch == last'.ret.segments[Len(last'.ret.segments)].text = <<>>

ScanAdvances ==
    LoopTurn =>
        /\ last'.ret.scanFrom > last.ret.scanFrom
        /\ last'.ret.scanFrom <= Len(last.arg[1]) + 1
        /\ EmptyMatch => last'.ret.scanFrom = last'.ret.lastIndex + 1

(* C24: the scan of getHighlightedSegments terminates for every text and   *)
(* every matcher, one that matches the empty string at every position      *)
(* included: a scan that is under way finishes, and every turn of its loop  *)
(* moves the scan position on, by one past the match when it is empty.      *)
C24_ScanTerminates ==
    /\ [](InScan => <>ScanDone)
    /\ [][ScanAdvances]_vars

\* The scan of a text for a matcher of the empty string has finished, with
\* an empty match among its segments.
C24_Witness ==
    /\ ScanDone
    /\ last.arg[1] # <<>>
    /\ \E k \in 1..Len(last.ret.segments) :
           last.ret.segments[k].highlighted /\ last.ret.segments[k].text = <<>>


\* s[i..j-1] is a whole word of s: a run of characters other than white
\* space with white space or an end of s on either side.
WholeWord(s, i, j) ==
    /\ i < j
    /\ \A p \in i..(j - 1) : ~IsSpace(s[p])
    /\ i = 1 \/ IsSpace(s[i - 1])
    /\ j = Len(s) + 1 \/ IsSpace(s[j])

RepeatsAWord(s) ==
    \E i \in 1..Len(s), j \in 1..Len(s), k \in 1..Len(s) :
        /\ WholeWord(s, i, j)
        /\ j < k
        /\ k + (j - i) - 1 <= Len(s)
        /\ WholeWord(s, k, k + (j - i))
        /\ toLowerCase(SubSeq(s, i, j - 1)) = toLowerCase(SubSeq(s, k, k + (j - i) - 1))

(* C25: validateDescription(s).valid is false for every string s that      *)
(* holds two identical whole words, compared ignoring case, with only      *)
(* white space between them.                                               *)
C25_RepeatedWordRejected ==
    (last.op = "validateDescription" /\ RepeatsAWord(last.arg[1])) => ~last.ret.valid


\* t is w digits, "0" or without a leading zero, then nothing or a dot and
\* f digits, f being 1 or 2, and is at most 999999.99.
AmountOfShape(t, w, f) ==
    /\ Len(t) = (IF f = 0 THEN w ELSE w + 1 + f)
    /\ \A p \in 1..w : t[p] \in DigitChars
    /\ w = 1 \/ t[1] # "0"
    /\ f > 0 => t[w + 1] = "." /\ \A p \in (w + 2)..Len(t) : t[p] \in DigitChars
    /\ \/ w < 7
       \/ w = 7 /\ numberOf(SubSeq(t, 1, w)) * 100
                     + (IF f = 0 THEN 0
                        ELSE IF f = 1 THEN 10 * numberOf(SubSeq(t, w + 2, Len(t)))
                        ELSE numberOf(SubSeq(t, w + 2, Len(t)))) <= 99999999

WellFormedAmount(s) ==
    \E w \in 1..Len(trim(s)), f \in 0..2 : AmountOfShape(trim(s), w, f)

(* C26: validateAmount(s) is valid exactly when s without the white space  *)
(* around it is "0" or a digit string without a leading zero, then         *)
(* nothing or a dot and 1 or 2 digits, with a value from 0 to 999999.99;   *)
(* "12.50" is valid and "01", ".50", "12.999" and "-5" are not.            *)
C26_AmountValidExactlyWhenWellFormed ==
    last.op = "validateAmount" =>
        /\ last.ret.valid <=> WellFormedAmount(last.arg[1])
        /\ last.arg[1] = <<"1", "2", ".", "5", "0">> => last.ret.valid
        /\ last.arg[1] \in {<<"0", "1">>, <<".", "5", "0">>,
                             <<"1", "2", ".", "9", "9", "9">>, <<"-", "5">>}
               => ~last.ret.valid

\* The amount at the upper limit has been validated and found valid.
C26_Witness ==
    /\ last.op = "validateAmount"
    /\ last.arg[1] = <<"9", "9", "9", "9", "9", "9", ".", "9", "9">>
    /\ last.ret.valid


FormStep == CallStep /\ last'.op = "handleFormSubmit"

\* The form fails validation: its custom category does, or one of the
\* fields of the transaction with the category that the form gives it.
FormFails(form) ==
    \/ /\ trim(form.customCategory) # <<>>
       /\ ~validateCategory(trim(form.customCategory)).valid
    \/ ~validateDescription(form.description).valid
    \/ ~validateAmount(form.amount).valid
    \/ ~validateDate(form.date).valid
    \/ ~validateCategory(IF trim(form.customCategory) # <<>>
                         THEN trim(form.customCategory)
                         ELSE form.category).valid

(* C27: a submission of the transaction form that fails validation, of the *)
(* custom category or of a field of the transaction, calls no mutator: the *)
(* transactions, the categories and the settings, in memory and in the     *)
(* store, are after handleFormSubmit what they were before it.             *)
C27_RejectedFormChangesNothing ==
    [][(FormStep /\ FormFails(last'.arg[1]))
           => UNCHANGED <<transactions, categories, settings, localStorage>>]_vars


(* C29: in every state reached through the handlers of the UI, the edit    *)
(* click, the confirmed delete, the cancel, the form submission, the       *)
(* import and the clearing of all data, the editing id of the UI state is  *)
(* none or the id of a transaction of the list.                           *)
C29_EditingIdNamesATransaction ==
    \/ ui.editingId = Null
    \/ \E i \in 1..Len(transactions) : transactions[i].id = ui.editingId[1]


\* The step is the call of setSearchQuery that the debounced search makes.
SearchCall == last'.op = "setSearchQuery" /\ page'.calls = page.calls + 1

(* C28: while each event of the search box or the case box follows the one *)
(* before it by less than 300 ms, setSearchQuery is not called; it is      *)
(* called exactly once, 300 ms after the last event, with the value of the *)
(* search box and the state of the case box at that time.                  *)
C28_OneCallAfterABurst ==
    /\ [](page.idle = Null => page.calls = 0)
    /\ [](page.idle # Null =>
             /\ page.idle[1] < Wait => page.calls = 0
             /\ page.idle[1] > Wait => page.calls = 1
             /\ page.calls <= 1)
    /\ [][SearchCall =>
             /\ page.idle = Some(Wait)
             /\ last'.arg = <<page.value, page.checked>>
             /\ ui'.searchQuery = page.value]_vars
    /\ [](page.idle # Null => <>(page.calls = 1 \/ page.idle = Some(0)))

\* The search has run once after a burst of three events, among them a
\* change of the case box, with what the boxes held 300 ms after the last.
C28_Witness ==
    /\ page.calls = 1
    /\ page.idle = Some(IdleCap)
    /\ ~page.checked
    /\ page.value = <<"a">>
    /\ last.op = "setSearchQuery"
    /\ last.arg = <<page.value, page.checked>>


\* A call of the tab whose turn it is.
TabStep == CallStep /\ peer' = peer

(* C30: with two tabs on one store, each having run initState, after any   *)
(* interleaving of whole mutator calls the mirror of the tab that made the *)
(* latest successful mutation equals the store, and a successful           *)
(* updateTransaction of that tab is in its own mirror.                     *)
C30_LatestWriterMirrorsStore ==
    [][(TabStep /\ last'.op \in DataMutators /\ Succeeded(last'))
           => /\ Mirror' = Loaded(localStorage')
              /\ last'.op = "updateTransaction"
                     => \E i \in 1..Len(transactions') :
                            transactions'[i] = last'.ret[1]]_vars

====
